---- MODULE Spec2Model ----
(***************************************************************************)
(* The ModelServe operator: the Reconcile state machine of                 *)
(* ModelServeReconciler run against the Kubernetes object store, its       *)
(* informer cache, the controller work queue and the platform's garbage    *)
(* collector.  One ModelServe key (Name, in one namespace) is modelled.    *)
(* Reconcile is split at its store calls: every call is one step, so that  *)
(* the store can change between two calls of one invocation.               *)
(***************************************************************************)
EXTENDS Integers, FiniteSets, Sequences, TLC

\* ------------------------------------------------------------- bounds
\* Rare events in one behaviour: store calls that fail with an error of
\* their own (a timeout, a rejection, a conflict with a client's update of
\* the ModelServe), children created or deleted by others, re-creations
\* of a deleted ModelServe, ticks of the wall clock.
MaxEvents == 1
\* Largest available-replica count the workload reports.
MaxAvail == 1

\* ------------------------------------------------------------ naming
Name == "demo"
Namespace == "default"
Workers == {1, 2}
Kinds == {"ConfigMap", "Deployment", "Service", "Ingress"}
\* The kinds SetupWithManager watches with Owns(...).
OwnedKinds == {"Deployment", "Service", "Ingress"}
PodNames == {"demo-pod-1"}
NoObj == [exists |-> FALSE]

\* ModelServeStatus as a freshly created object has it (Go zero values;
\* startedAt 0 is the nil *metav1.Time).
EmptyStatus ==
  [phase |-> "", message |-> "", availableReplicas |-> 0, serviceName |-> "",
   gatewayURL |-> "", podName |-> "", startedAt |-> 0]
\* The part of ModelServeSpec a change of which is followed here: the
\* container image (the other fields reach the Deployment the same way).
DefaultImage == "ghcr.io/ggerganov/llama.cpp:server"
Images == {DefaultImage, "registry.example/llama:v2"}
NoSpec ==
  [image |-> "", memoryLimit |-> 0, cpuLimit |-> 0, replicas |-> <<>>,
   minioEndpoint |-> "", minioBucket |-> ""]
\* The spec of a ModelServe created with the optional fields unset, as the
\* defaulting webhook leaves it.
DefaultedSpec ==
  [image |-> DefaultImage, memoryLimit |-> 4096, cpuLimit |-> 2000,
   replicas |-> <<1>>, minioEndpoint |-> "minio:9000",
   minioBucket |-> "inference-models"]
NoMS == [exists |-> FALSE, uid |-> 0, spec |-> NoSpec, status |-> EmptyStatus]

\* ---------------------------------------------------------- builders
\* A ModelServe as the builders read it: m.Name, m.Namespace, m.Spec.
ModelServe(name, namespace, spec) ==
  [name |-> name, namespace |-> namespace, spec |-> spec]
\* The ModelServe of the reconciled key, with the spec Reconcile read.
Parent(spec) == ModelServe(Name, Namespace, spec)

\* Mutant: the labels do not tell one ModelServe from another.
labelsForModelServeOfAll(name) ==
  [app |-> "model-serve", model_serve_cr |-> "model-serve"]
labelsForModelServe(name) == [app |-> "model-serve", model_serve_cr |-> name]

\* Go's integer division, which truncates toward zero.
GoDiv(a, b) == IF a >= 0 THEN a \div b ELSE -((-a) \div b)
\* resource.MustParse(fmt.Sprintf("%d" + unit, n)): the quantity n of unit.
Quantity(n, unit) == [value |-> n, unit |-> unit]

\* Mutant: the middleware ConfigMap has one name for every ModelServe.
createStripPrefixMiddlewareFixedName(m) ==
  [exists |-> TRUE, name |-> "stripprefix", namespace |-> m.namespace,
   labels |-> labelsForModelServe(m.name), owners |-> {}]
\* The ObjectMeta each builder fills in: name, namespace, labels.  No
\* builder sets OwnerReferences, and Reconcile never calls
\* SetControllerReference, so the owner set of a built object is empty.
createStripPrefixMiddlewareObject(m) ==
  [exists |-> TRUE, name |-> m.name \o "-stripprefix",
   namespace |-> m.namespace,
   labels |-> labelsForModelServe(m.name), owners |-> {}]
\* The environment of the operator process, as os.Getenv reads it: "" for
\* a variable that is not set.  No MINIO_* variable is set.
Environ == [MINIO_ENDPOINT |-> "", MINIO_BUCKET |-> ""]
\* Mutant: the value of the variable, without the fallback.
getEnvNoDefault(key, defaultValue) == Environ[key]
getEnvOrDefault(key, defaultValue) ==
  IF Environ[key] # "" THEN Environ[key] ELSE defaultValue
\* The Deployment: metadata, replicas (<<>> is the nil pointer), selector
\* and pod-template labels, the MinIO endpoint and bucket the init
\* container downloads from, the image and the resources of the
\* llama-server container.
deploymentForModelServe(m) ==
  LET ls == labelsForModelServe(m.name)
      replicas == IF m.spec.replicas = <<>> THEN 1 ELSE m.spec.replicas[1]
      minioEndpoint == IF m.spec.minioEndpoint = ""
                         THEN getEnvOrDefault("MINIO_ENDPOINT", "minio:9000")
                         ELSE m.spec.minioEndpoint
      minioBucket == IF m.spec.minioBucket = ""
                       THEN getEnvOrDefault("MINIO_BUCKET", "inference-models")
                       ELSE m.spec.minioBucket
      memoryLimit == IF m.spec.memoryLimit = 0 THEN 4096
                     ELSE m.spec.memoryLimit
      cpuLimit == IF m.spec.cpuLimit = 0 THEN 2000 ELSE m.spec.cpuLimit
  IN [exists |-> TRUE, name |-> m.name, namespace |-> m.namespace,
      labels |-> ls, owners |-> {}, replicas |-> replicas,
      selector |-> ls, templateLabels |-> ls,
      minioEndpoint |-> minioEndpoint, minioBucket |-> minioBucket,
      image |-> IF m.spec.image = "" THEN DefaultImage ELSE m.spec.image,
      requests |-> [memory |-> Quantity(GoDiv(memoryLimit, 2), "Mi"),
                    cpu |-> Quantity(GoDiv(cpuLimit, 2), "m")],
      limits |-> [memory |-> Quantity(memoryLimit, "Mi"),
                  cpu |-> Quantity(cpuLimit, "m")]]
\* Mutant: the Service selects by the app label alone.
serviceForModelServeByApp(m) ==
  [exists |-> TRUE, name |-> m.name, namespace |-> m.namespace,
   labels |-> labelsForModelServe(m.name), owners |-> {},
   selector |-> [app |-> "model-serve"]]
serviceForModelServe(m) ==
  [exists |-> TRUE, name |-> m.name, namespace |-> m.namespace,
   labels |-> labelsForModelServe(m.name), owners |-> {},
   selector |-> labelsForModelServe(m.name)]
ingressForModelServe(m) ==
  [exists |-> TRUE, name |-> m.name, namespace |-> m.namespace,
   labels |-> labelsForModelServe(m.name), owners |-> {},
   path |-> "/" \o m.name, backend |-> m.name]
BuildChild(k, m) ==
  CASE k = "ConfigMap" -> createStripPrefixMiddlewareObject(m)
    [] k = "Deployment" -> deploymentForModelServe(m)
    [] k = "Service" -> serviceForModelServe(m)
    [] OTHER -> ingressForModelServe(m)

\* ------------------------------------------------------------- state
VARIABLES
  ms,          \* the ModelServe in the store: exists, uid, status
  kids,        \* the child of each kind in the store, or NoObj
  depAvail,    \* status.availableReplicas of the Deployment in the store
  runningPod,  \* name of the first Running pod a pod List returns, or ""
  lag,         \* kinds whose created object the informer cache has not seen
  byRec,       \* kinds whose stored object was created by Reconcile
  queued,      \* the key is in the controller's work queue
  inv,         \* per worker: position and locals of its Reconcile call
  clock,       \* wall clock (time.Now), from 1
  nextUid,     \* uid the next created ModelServe gets
  budget,      \* rare events still to come
  lastRun,     \* per worker: summary of its Reconcile call that returned last
  streak,      \* consecutive converged returns with no external change
  hist,        \* history flags of the current ModelServe incarnation
  adm,         \* the admission request in progress: verb, object, verdict
  bld,         \* the builders' call in progress: parents and built children
  keys         \* two keys: the shared store, and per key status and call

vars == <<ms, kids, depAvail, runningPod, lag, byRec, queued, inv, clock,
          nextUid, budget, lastRun, streak, hist, adm, bld, keys>>

IdleInv ==
  [pc |-> "idle", m |-> EmptyStatus, spec |-> NoSpec, uid |-> 0,
   stale |-> FALSE,
   foundAvail |-> 0, creates |-> 0, writes |-> 0, ae |-> FALSE,
   dirty |-> FALSE, tried |-> {}, seen |-> {}]
NoRun == [result |-> "none", ae |-> FALSE, tried |-> {}]
\* pristine: the incarnation was created with no child present and no
\* Reconcile call of an earlier incarnation in progress, and since then no
\* store call failed and nobody but Reconcile touched a child.
\* dipped: the workload has been absent or at 0 available replicas at some
\* moment since phase Running was last persisted.
\* ready: some Reconcile call has read the Deployment with
\* Status.AvailableReplicas > 0 since the incarnation was created.
NoHist == [pristine |-> FALSE, dipped |-> TRUE, ready |-> FALSE]
\* No admission request in progress.
NoAdm == [stage |-> "none"]
\* No call of the builders followed on its own.
NoBld == [stage |-> "none"]
NoKeys == [stage |-> "none"]

Init ==
  /\ ms = NoMS
  /\ kids = [k \in Kinds |-> NoObj]
  /\ depAvail = 0
  /\ runningPod = ""
  /\ lag = {}
  /\ byRec = {}
  /\ queued = FALSE
  /\ inv = [w \in Workers |-> IdleInv]
  /\ clock = 1
  /\ nextUid = 1
  /\ budget = MaxEvents
  /\ lastRun = [w \in Workers |-> NoRun]
  /\ streak = 0
  /\ hist = NoHist
  /\ adm = NoAdm
  /\ bld = NoBld
  /\ keys = NoKeys

\* ------------------------------------------------------- environment
\* An external change of the store: every Reconcile call in flight has
\* seen a state that is no longer the current one.
Disturbed ==
  [w \in Workers |->
     IF inv[w].pc # "idle" THEN [inv[w] EXCEPT !.dirty = TRUE] ELSE inv[w]]
\* handler.EnqueueRequestForOwner, installed by Owns(...): an event of a
\* child enqueues the key of the ModelServe its owner reference names;
\* a child without owner reference enqueues nothing.
EnqueueForOwner(k, obj) == k \in OwnedKinds /\ obj.exists /\ obj.owners # {}

\* A client creates the ModelServe (the admission gate has let it pass).
CreateParent ==
  /\ ~ms.exists
  /\ nextUid > 1 => budget > 0
  /\ budget' = IF nextUid > 1 THEN budget - 1 ELSE budget
  /\ ms' = [exists |-> TRUE, uid |-> nextUid,
            spec |-> DefaultedSpec, status |-> EmptyStatus]
  /\ nextUid' = nextUid + 1
  /\ queued' = TRUE
  /\ hist' = [pristine |-> /\ \A k \in Kinds : ~kids[k].exists
                            /\ \A w \in Workers : inv[w].pc = "idle",
              dipped |-> TRUE, ready |-> FALSE]
  /\ inv' = Disturbed
  /\ streak' = 0
  /\ UNCHANGED <<adm, bld, keys, kids, depAvail, runningPod, lag, byRec, clock, lastRun>>

\* A client deletes the ModelServe; the delete event enqueues its key.
DeleteParent ==
  /\ ms.exists
  /\ ms' = NoMS
  /\ queued' = TRUE
  /\ hist' = NoHist
  /\ inv' = Disturbed
  /\ streak' = 0
  /\ UNCHANGED <<adm, bld, keys, kids, depAvail, runningPod, lag, byRec, clock, nextUid,
                 budget, lastRun>>

\* A client changes the spec of the ModelServe (the admission gate has
\* let it pass): a new resourceVersion, which outdates the copy a
\* Reconcile call in flight holds, and an update event for the key.
UpdateSpec ==
  \E img \in Images :
    /\ ms.exists
    /\ img # ms.spec.image
    /\ budget > 0
    /\ budget' = budget - 1
    /\ ms' = [ms EXCEPT !.spec.image = img]
    /\ queued' = TRUE
    /\ inv' = [w \in Workers |->
                IF inv[w].pc \notin {"idle", "get"}
                  THEN [inv[w] EXCEPT !.dirty = TRUE, !.stale = TRUE]
                  ELSE inv[w]]
    /\ streak' = 0
    /\ UNCHANGED <<adm, bld, keys, kids, depAvail, runningPod, lag, byRec, clock, nextUid,
                   lastRun, hist>>

\* Someone other than Reconcile creates an object with a child's name,
\* with or without an owner reference to the current ModelServe.
ExternalCreate ==
  \E k \in Kinds, owned \in BOOLEAN :
    /\ ~kids[k].exists
    /\ owned => ms.exists
    /\ budget > 0
    /\ budget' = budget - 1
    /\ kids' = [kids EXCEPT ![k] =
                  [BuildChild(k, Parent(NoSpec)) EXCEPT
                     !.owners = IF owned THEN {ms.uid} ELSE {}]]
    /\ lag' = lag \cup {k}
    /\ byRec' = byRec \ {k}
    /\ queued' = (queued \/ EnqueueForOwner(k, kids'[k]))
    /\ hist' = [hist EXCEPT !.pristine = FALSE]
    /\ inv' = Disturbed
    /\ streak' = 0
    /\ UNCHANGED <<adm, bld, keys, ms, depAvail, runningPod, clock, nextUid, lastRun>>

\* The store after the child of kind k is removed.
Removed(k) ==
  /\ kids' = [kids EXCEPT ![k] = NoObj]
  /\ lag' = lag \ {k}
  /\ byRec' = byRec \ {k}
  /\ depAvail' = IF k = "Deployment" THEN 0 ELSE depAvail
  /\ runningPod' = IF k = "Deployment" THEN "" ELSE runningPod
  /\ queued' = (queued \/ EnqueueForOwner(k, kids[k]))
  /\ hist' = [pristine |-> FALSE,
              dipped |-> hist.dipped \/ k = "Deployment",
              ready |-> hist.ready]
  /\ inv' = Disturbed
  /\ streak' = 0
  /\ UNCHANGED <<adm, bld, keys, ms, clock, nextUid, lastRun>>

\* Someone deletes a child (kubectl delete).
ExternalDelete ==
  \E k \in Kinds :
    /\ kids[k].exists
    /\ budget > 0
    /\ budget' = budget - 1
    /\ Removed(k)

\* The platform's garbage collector: it removes an object whose owner
\* references name no object that still exists.
Orphan(k) ==
  /\ kids[k].exists
  /\ kids[k].owners # {}
  /\ \A u \in kids[k].owners : ~(ms.exists /\ ms.uid = u)
GarbageCollect ==
  \E k \in Kinds : Orphan(k) /\ Removed(k) /\ UNCHANGED <<adm, bld, keys, budget>>

\* The Deployment controller reports another available-replica count;
\* with a replica available, a pod of the workload is Running.
DeploymentStatus ==
  \E n \in 0..MaxAvail :
    /\ kids["Deployment"].exists
    /\ n # depAvail
    /\ depAvail' = n
    /\ runningPod' = IF n > 0 THEN CHOOSE p \in PodNames : TRUE ELSE ""
    /\ queued' = (queued \/ EnqueueForOwner("Deployment", kids["Deployment"]))
    /\ hist' = [hist EXCEPT !.dipped = hist.dipped \/ n = 0]
    /\ inv' = Disturbed
    /\ streak' = 0
    /\ UNCHANGED <<adm, bld, keys, ms, kids, lag, byRec, clock, nextUid, budget, lastRun>>

\* The informer cache catches up with a created object.
CacheSync ==
  \E k \in lag :
    /\ lag' = lag \ {k}
    /\ UNCHANGED <<adm, bld, keys, ms, kids, depAvail, runningPod, byRec, queued, inv, clock,
                   nextUid, budget, lastRun, streak, hist>>

\* The informer's periodic resync re-delivers the ModelServe.
Resync ==
  /\ ms.exists
  /\ ~queued
  /\ queued' = TRUE
  /\ UNCHANGED <<adm, bld, keys, ms, kids, depAvail, runningPod, lag, byRec, inv, clock,
                 nextUid, budget, lastRun, streak, hist>>

Tick ==
  /\ budget > 0
  /\ budget' = budget - 1
  /\ clock' = clock + 1
  /\ UNCHANGED <<adm, bld, keys, ms, kids, depAvail, runningPod, lag, byRec, queued, inv,
                 nextUid, lastRun, streak, hist>>

\* ------------------------------------------------- store primitives
\* A store call may fail with a transient error while failures are left.
FailChoices == IF budget > 0 THEN BOOLEAN ELSE {FALSE}
Spend(fail) == budget' = IF fail THEN budget - 1 ELSE budget

\* r.Get of a child reads the informer cache: an object the cache has not
\* seen yet is reported NotFound.
Found(k) == kids[k].exists /\ k \notin lag

\* r.Status().Update succeeds if the object still exists with the uid and
\* the resourceVersion of the copy the caller holds.
UpdateOK(r, fail) == ~fail /\ ms.exists /\ ms.uid = r.uid /\ ~r.stale
\* An update that changes the stored status gives the object a new
\* resourceVersion and raises an update event, which enqueues the key.
Changes(r, ok) == ok /\ r.m # ms.status
\* The calls in flight after worker w, now with locals r, has updated the
\* status: the copies the other workers hold are outdated by a change.
AfterUpdate(w, r, ok) ==
  [v \in Workers |->
     IF v = w THEN r
     ELSE IF Changes(r, ok) /\ inv[v].pc \notin {"idle", "get"}
       THEN [inv[v] EXCEPT !.stale = TRUE]
       ELSE inv[v]]
HistAfterUpdate(r, ok) ==
  [pristine |-> hist.pristine /\ ok,
   dipped |-> IF ok /\ r.m.phase = "Running" /\ ms.status.phase # "Running"
                THEN ~(kids["Deployment"].exists /\ depAvail > 0)
                ELSE hist.dipped,
   ready |-> hist.ready]
\* Mutant: the write stores the whole object, with the image defaulted.
StatusUpdateWithImage(r, ok) ==
  ms' = IF ok THEN [ms EXCEPT !.status = r.m, !.spec.image = DefaultImage]
        ELSE ms
StatusUpdate(r, ok) == ms' = IF ok THEN [ms EXCEPT !.status = r.m] ELSE ms

\* r.Create of the child of kind k as its builder returns it; the store
\* answers AlreadyExists when an object of that name is there.
CreateOK(k, fail) == ~fail /\ ~kids[k].exists
CreateChild(k, ok, spec) ==
  /\ kids' = IF ok THEN [kids EXCEPT ![k] = BuildChild(k, Parent(spec))]
                   ELSE kids
  /\ lag' = IF ok THEN lag \cup {k} ELSE lag
  /\ byRec' = IF ok THEN byRec \cup {k} ELSE byRec
  /\ depAvail' = IF ok /\ k = "Deployment" THEN 0 ELSE depAvail
CreateError(k, fail) ==
  IF ~fail /\ kids[k].exists THEN "already exists" ELSE "create failed"

\* Reconcile returns `result` from worker w, whose locals were r; base is
\* the calls in flight and q the queue before the return.  The controller
\* re-adds the key on Requeue and (rate limited) on an error.
Return(w, r, result, reached, base, q) ==
  /\ inv' = [base EXCEPT ![w] = IdleInv]
  /\ lastRun' = [lastRun EXCEPT ![w] =
       [result |-> result, ae |-> r.ae, tried |-> r.tried]]
  /\ streak' = IF result = "ok" /\ reached /\ ~r.dirty
                 THEN (IF streak < 2 THEN streak + 1 ELSE 2) ELSE 0
  /\ queued' = (q \/ result \in {"requeue", "err"})
Continue(w, r, base, q) ==
  /\ inv' = [base EXCEPT ![w] = r]
  /\ queued' = q
  /\ UNCHANGED <<lastRun, streak>>

\* ---------------------------------------------------------- Reconcile
\* A worker takes the key from the queue and calls Reconcile.
Start(w) ==
  /\ inv[w].pc = "idle"
  /\ queued
  /\ queued' = FALSE
  /\ inv' = [inv EXCEPT ![w] = [IdleInv EXCEPT !.pc = "get"]]
  /\ lastRun' = [lastRun EXCEPT ![w] = NoRun]
  /\ UNCHANGED <<adm, bld, keys, ms, kids, depAvail, runningPod, lag, byRec, clock, nextUid,
                 budget, streak, hist>>

\* Mutant: a ModelServe that is not found makes the call return Requeue.
GetModelServeRequeueing(w) ==
  /\ inv[w].pc = "get"
  /\ \E fail \in FailChoices :
       LET r == inv[w]
           got == [r EXCEPT !.m = ms.status, !.spec = ms.spec,
                     !.uid = ms.uid, !.stale = FALSE,
                     !.pc = IF ms.status.phase = "" THEN "init" ELSE "cmGet"]
       IN /\ Spend(fail)
          /\ hist' = [hist EXCEPT !.pristine = @ /\ ~fail]
          /\ IF fail THEN Return(w, r, "err", FALSE, inv, queued)
             ELSE IF ~ms.exists
               THEN Return(w, r, "requeue", FALSE, inv, queued)
             ELSE Continue(w, got, inv, queued)
  /\ UNCHANGED <<adm, bld, keys, ms, kids, depAvail, runningPod, lag, byRec, clock, nextUid>>
\* r.Get(ctx, req.NamespacedName, modelServe)
GetModelServe(w) ==
  /\ inv[w].pc = "get"
  /\ \E fail \in FailChoices :
       LET r == inv[w]
           got == [r EXCEPT !.m = ms.status, !.spec = ms.spec,
                     !.uid = ms.uid, !.stale = FALSE,
                     !.pc = IF ms.status.phase = "" THEN "init" ELSE "cmGet"]
       IN /\ Spend(fail)
          /\ hist' = [hist EXCEPT !.pristine = @ /\ ~fail]
          /\ IF fail THEN Return(w, r, "err", FALSE, inv, queued)
             ELSE IF ~ms.exists THEN Return(w, r, "ok", FALSE, inv, queued)
             ELSE Continue(w, got, inv, queued)
  /\ UNCHANGED <<adm, bld, keys, ms, kids, depAvail, runningPod, lag, byRec, clock, nextUid>>

\* Phase unset: Pending is written before anything else.
InitStatus(w) ==
  /\ inv[w].pc = "init"
  /\ \E fail \in FailChoices :
       LET r == [inv[w] EXCEPT !.m.phase = "Pending",
                   !.m.message = "Initializing model server",
                   !.writes = @ + 1, !.pc = "cmGet"]
           ok == UpdateOK(r, fail)
       IN /\ Spend(fail)
          /\ StatusUpdate(r, ok)
          /\ hist' = HistAfterUpdate(r, ok)
          /\ IF ok THEN Continue(w, r, AfterUpdate(w, r, ok),
                                 queued \/ Changes(r, ok))
             ELSE Return(w, r, "err", FALSE, inv, queued)
  /\ UNCHANGED <<adm, bld, keys, kids, depAvail, runningPod, lag, byRec, clock, nextUid>>

\* Mutant: a child that is found but differs from what the builder
\* returns for the spec just read is updated to it.
ChildGetAndUpdate(w, k, at, foundPc, missingPc) ==
  /\ inv[w].pc = at
  /\ \E fail \in FailChoices :
       LET r == inv[w]
           next == [r EXCEPT
                      !.pc = IF Found(k) THEN foundPc ELSE missingPc,
                      !.foundAvail = IF k = "Deployment" /\ Found(k)
                                       THEN depAvail ELSE @,
                      !.seen = IF Found(k) THEN @ \cup {k} ELSE @]
       IN /\ Spend(fail)
          /\ hist' = [hist EXCEPT !.pristine = @ /\ ~fail,
                        !.ready = @ \/ (/\ ~fail /\ k = "Deployment"
                                        /\ Found(k) /\ depAvail > 0)]
          /\ kids' = IF ~fail /\ Found(k)
                       THEN [kids EXCEPT ![k] =
                               [BuildChild(k, Parent(r.spec)) EXCEPT
                                  !.owners = kids[k].owners]]
                       ELSE kids
          /\ IF fail THEN Return(w, r, "err", FALSE, inv, queued)
             ELSE Continue(w, next, inv, queued)
  /\ UNCHANGED <<adm, bld, keys, ms, depAvail, runningPod, lag, byRec, clock, nextUid>>
\* The lookup of one child: found, NotFound, or another error.
ChildGet(w, k, at, foundPc, missingPc) ==
  /\ inv[w].pc = at
  /\ \E fail \in FailChoices :
       LET r == inv[w]
           next == [r EXCEPT
                      !.pc = IF Found(k) THEN foundPc ELSE missingPc,
                      !.foundAvail = IF k = "Deployment" /\ Found(k)
                                       THEN depAvail ELSE @,
                      !.seen = IF Found(k) THEN @ \cup {k} ELSE @]
       IN /\ Spend(fail)
          /\ hist' = [hist EXCEPT !.pristine = @ /\ ~fail,
                        !.ready = @ \/ (/\ ~fail /\ k = "Deployment"
                                        /\ Found(k) /\ depAvail > 0)]
          /\ IF fail THEN Return(w, r, "err", FALSE, inv, queued)
             ELSE Continue(w, next, inv, queued)
  /\ UNCHANGED <<adm, bld, keys, ms, kids, depAvail, runningPod, lag, byRec, clock, nextUid>>

\* createStripPrefixMiddleware: Get, then Create on NotFound; any error of
\* either call is returned, and Reconcile returns it.
MiddlewareGet(w) == ChildGet(w, "ConfigMap", "cmGet", "depGet", "cmCreate")
MiddlewareCreate(w) ==
  /\ inv[w].pc = "cmCreate"
  /\ \E fail \in FailChoices :
       LET k == "ConfigMap"
           ok == CreateOK(k, fail)
           r == [inv[w] EXCEPT !.tried = @ \cup {k},
                   !.ae = @ \/ (~fail /\ kids[k].exists),
                   !.creates = IF ok THEN @ + 1 ELSE @, !.pc = "depGet"]
       IN /\ Spend(fail)
          /\ CreateChild(k, ok, inv[w].spec)
          /\ hist' = [hist EXCEPT !.pristine = @ /\ ok]
          /\ IF ok THEN Continue(w, r, inv, queued)
             ELSE Return(w, r, "err", FALSE, inv, queued)
  /\ UNCHANGED <<adm, bld, keys, ms, runningPod, clock, nextUid>>

\* Mutant: a Deployment that is not found is passed over.
DeploymentGetPassingOver(w) ==
  ChildGet(w, "Deployment", "depGet", "svcGet", "svcGet")
\* Check if Deployment exists.
DeploymentGet(w) ==
  ChildGet(w, "Deployment", "depGet", "svcGet", "depDownloading")

\* Deployment NotFound: phase Downloading is written; an error of this
\* update is logged and ignored.
DownloadingStatus(w) ==
  /\ inv[w].pc = "depDownloading"
  /\ \E fail \in FailChoices :
       LET r == [inv[w] EXCEPT !.m.phase = "Downloading",
                   !.m.message = "Downloading model from MinIO",
                   !.writes = @ + 1, !.pc = "depCreate"]
           ok == UpdateOK(r, fail)
       IN /\ Spend(fail)
          /\ StatusUpdate(r, ok)
          /\ hist' = HistAfterUpdate(r, ok)
          /\ Continue(w, r, AfterUpdate(w, r, ok), queued \/ Changes(r, ok))
  /\ UNCHANGED <<adm, bld, keys, kids, depAvail, runningPod, lag, byRec, clock, nextUid>>

\* r.Create(ctx, dep): on success return with Requeue; on any error set
\* phase Failed and the message in the local copy and go on to write them.
DeploymentCreate(w) ==
  /\ inv[w].pc = "depCreate"
  /\ \E fail \in FailChoices :
       LET k == "Deployment"
           ok == CreateOK(k, fail)
           r == [inv[w] EXCEPT !.tried = @ \cup {k},
                   !.ae = @ \/ (~fail /\ kids[k].exists),
                   !.creates = IF ok THEN @ + 1 ELSE @]
           bad == [r EXCEPT !.m.phase = "Failed",
                     !.m.message = "Failed to create deployment: "
                                     \o CreateError(k, fail),
                     !.pc = "depFailed"]
           q == queued \/ (ok /\ EnqueueForOwner(k, BuildChild(k, Parent(inv[w].spec))))
       IN /\ Spend(fail)
          /\ CreateChild(k, ok, inv[w].spec)
          /\ hist' = [hist EXCEPT !.pristine = @ /\ ok]
          /\ IF ok THEN Return(w, r, "requeue", FALSE, inv, q)
             ELSE Continue(w, bad, inv, q)
  /\ UNCHANGED <<adm, bld, keys, ms, runningPod, clock, nextUid>>

\* r.Status().Update(ctx, modelServe) with phase Failed, its error
\* dropped; then return the create's error.
FailedStatus(w) ==
  /\ inv[w].pc = "depFailed"
  /\ \E fail \in FailChoices :
       LET r == [inv[w] EXCEPT !.writes = @ + 1]
           ok == UpdateOK(r, fail)
       IN /\ Spend(fail)
          /\ StatusUpdate(r, ok)
          /\ hist' = HistAfterUpdate(r, ok)
          /\ Return(w, r, "err", FALSE, AfterUpdate(w, r, ok),
                    queued \/ Changes(r, ok))
  /\ UNCHANGED <<adm, bld, keys, kids, depAvail, runningPod, lag, byRec, clock, nextUid>>

\* Mutant: a create that succeeds makes the call return without Requeue.
ChildCreateNoRequeue(w, k, at) ==
  /\ inv[w].pc = at
  /\ \E fail \in FailChoices :
       LET ok == CreateOK(k, fail)
           r == [inv[w] EXCEPT !.tried = @ \cup {k},
                   !.ae = @ \/ (~fail /\ kids[k].exists),
                   !.creates = IF ok THEN @ + 1 ELSE @]
           q == queued \/ (ok /\ EnqueueForOwner(k, BuildChild(k, Parent(inv[w].spec))))
       IN /\ Spend(fail)
          /\ CreateChild(k, ok, inv[w].spec)
          /\ hist' = [hist EXCEPT !.pristine = @ /\ ok]
          /\ Return(w, r, IF ok THEN "ok" ELSE "err", FALSE, inv, q)
  /\ UNCHANGED <<adm, bld, keys, ms, runningPod, clock, nextUid>>
\* Mutant: a create that fails is recorded as phase Failed, as the
\* Deployment's is.
ChildCreateRecordsFailure(w, k, at) ==
  /\ inv[w].pc = at
  /\ \E fail \in FailChoices :
       LET ok == CreateOK(k, fail)
           r == [inv[w] EXCEPT !.tried = @ \cup {k},
                   !.ae = @ \/ (~fail /\ kids[k].exists),
                   !.creates = IF ok THEN @ + 1 ELSE @]
           bad == [r EXCEPT !.m.phase = "Failed",
                     !.m.message = "Failed to create: " \o CreateError(k, fail)]
           wrote == ~ok /\ UpdateOK(bad, FALSE)
           q == queued \/ (ok /\ EnqueueForOwner(k, BuildChild(k, Parent(inv[w].spec))))
       IN /\ Spend(fail)
          /\ CreateChild(k, ok, inv[w].spec)
          /\ StatusUpdate(bad, wrote)
          /\ hist' = [hist EXCEPT !.pristine = @ /\ ok]
          /\ Return(w, r, IF ok THEN "requeue" ELSE "err", FALSE,
                    AfterUpdate(w, r, wrote), q \/ Changes(bad, wrote))
  /\ UNCHANGED <<adm, bld, keys, runningPod, clock, nextUid>>
\* Mutant: after a create that succeeds the call goes on to its next
\* lookup instead of returning with Requeue.
ChildCreateAndGoOn(w, k, at) ==
  /\ inv[w].pc = at
  /\ \E fail \in FailChoices :
       LET ok == CreateOK(k, fail)
           r == [inv[w] EXCEPT !.tried = @ \cup {k},
                   !.ae = @ \/ (~fail /\ kids[k].exists),
                   !.creates = IF ok THEN @ + 1 ELSE @]
           on == [r EXCEPT !.pc = IF k = "Service" THEN "ingGet" ELSE "status"]
           q == queued \/ (ok /\ EnqueueForOwner(k, BuildChild(k, Parent(inv[w].spec))))
       IN /\ Spend(fail)
          /\ CreateChild(k, ok, inv[w].spec)
          /\ hist' = [hist EXCEPT !.pristine = @ /\ ok]
          /\ IF ok THEN Continue(w, on, inv, q)
             ELSE Return(w, r, "err", FALSE, inv, q)
  /\ UNCHANGED <<adm, bld, keys, ms, runningPod, clock, nextUid>>
\* The create of the Service or the Ingress: Requeue on success, the error
\* on failure; the status is not touched.
ChildCreate(w, k, at) ==
  /\ inv[w].pc = at
  /\ \E fail \in FailChoices :
       LET ok == CreateOK(k, fail)
           r == [inv[w] EXCEPT !.tried = @ \cup {k},
                   !.ae = @ \/ (~fail /\ kids[k].exists),
                   !.creates = IF ok THEN @ + 1 ELSE @]
           q == queued \/ (ok /\ EnqueueForOwner(k, BuildChild(k, Parent(inv[w].spec))))
       IN /\ Spend(fail)
          /\ CreateChild(k, ok, inv[w].spec)
          /\ hist' = [hist EXCEPT !.pristine = @ /\ ok]
          /\ Return(w, r, IF ok THEN "requeue" ELSE "err", FALSE, inv, q)
  /\ UNCHANGED <<adm, bld, keys, ms, runningPod, clock, nextUid>>

ServiceGet(w) == ChildGet(w, "Service", "svcGet", "ingGet", "svcCreate")
ServiceCreate(w) == ChildCreate(w, "Service", "svcCreate")
IngressGet(w) == ChildGet(w, "Ingress", "ingGet", "status", "ingCreate")
IngressCreate(w) == ChildCreate(w, "Ingress", "ingCreate")

\* "Update Status based on deployment state": the new local status and
\* needsStatusUpdate, from the status read (m), the Deployment read
\* (avail), the key's name, time.Now and the first Running pod listed.
GatewayHost == "localhost"
\* fmt.Sprintf("http://localhost/%s", modelServe.Name)
GatewayURL(name) == "http://" \o GatewayHost \o "/" \o name
\* Mutant: the copied count does not raise needsStatusUpdate.
ReplicasStepNoFlag(st, avail) ==
  IF avail # st.m.availableReplicas
    THEN [m |-> [st.m EXCEPT !.availableReplicas = avail], needs |-> st.needs]
    ELSE st
ReplicasStep(st, avail) ==
  IF avail # st.m.availableReplicas
    THEN [m |-> [st.m EXCEPT !.availableReplicas = avail], needs |-> TRUE]
    ELSE st
ServiceNameStep(st, name) ==
  LET svc == serviceForModelServe(ModelServe(name, Namespace, NoSpec))
  IN IF st.m.serviceName # svc.name
       THEN [m |-> [st.m EXCEPT !.serviceName = svc.name], needs |-> TRUE]
       ELSE st
GatewayStep(st, name) ==
  IF st.m.gatewayURL # GatewayURL(name)
    THEN [m |-> [st.m EXCEPT !.gatewayURL = GatewayURL(name)], needs |-> TRUE]
    ELSE st
\* Mutant: the first transition to Running does not set StartedAt.
RunningStepNoStart(st, now) ==
  IF st.m.phase # "Running"
    THEN [m |-> [st.m EXCEPT !.phase = "Running",
                   !.message = "Model server is running"],
          needs |-> TRUE]
    ELSE st
RunningStep(st, now) ==
  IF st.m.phase # "Running"
    THEN [m |-> [st.m EXCEPT !.phase = "Running",
                   !.message = "Model server is running", !.startedAt = now],
          needs |-> TRUE]
    ELSE st
PodNameStep(st, pod) ==
  IF pod # "" /\ st.m.podName # pod
    THEN [m |-> [st.m EXCEPT !.podName = pod], needs |-> TRUE]
    ELSE st
\* Mutant: the waiting branch does not spare phase Failed.
WaitingStepOverFailed(st) ==
  IF st.m.phase # "Downloading"
    THEN [m |-> [st.m EXCEPT !.phase = "Pending",
                   !.message = "Waiting for pod to be ready"],
          needs |-> TRUE]
    ELSE st
WaitingStep(st) ==
  IF st.m.phase # "Downloading" /\ st.m.phase # "Failed"
    THEN [m |-> [st.m EXCEPT !.phase = "Pending",
                   !.message = "Waiting for pod to be ready"],
          needs |-> TRUE]
    ELSE st
\* Mutant: the waiting branch is the else of the inner test, so that a
\* phase that is Running already falls into it.
PhaseStepDanglingElse(st, avail, now, pod) ==
  IF avail > 0 /\ st.m.phase # "Running"
    THEN PodNameStep(RunningStep(st, now), pod)
    ELSE WaitingStep(st)
PhaseStep(st, avail, now, pod) ==
  IF avail > 0 THEN PodNameStep(RunningStep(st, now), pod)
  ELSE WaitingStep(st)
StatusRecompute(m, avail, name, now, pod) ==
  PhaseStep(
    GatewayStep(
      ServiceNameStep(ReplicasStep([m |-> m, needs |-> FALSE], avail), name),
      name),
    avail, now, pod)

\* The recomputation, with the pod List it makes when replicas are
\* available (an error of the List is ignored).  Without a change
\* Reconcile returns here.
StatusStep(w) ==
  /\ inv[w].pc = "status"
  /\ \E fail \in (IF inv[w].foundAvail > 0 THEN FailChoices ELSE {FALSE}) :
       LET r == inv[w]
           st == StatusRecompute(r.m, r.foundAvail, Name, clock,
                                 IF fail THEN "" ELSE runningPod)
           next == [r EXCEPT !.m = st.m, !.pc = "statusWrite"]
       IN /\ Spend(fail)
          /\ hist' = [hist EXCEPT !.pristine = @ /\ ~fail]
          /\ IF st.needs THEN Continue(w, next, inv, queued)
             ELSE Return(w, r, "ok", TRUE, inv, queued)
  /\ UNCHANGED <<adm, bld, keys, ms, kids, depAvail, runningPod, lag, byRec, clock, nextUid>>

\* if needsStatusUpdate { r.Status().Update(ctx, modelServe) }
StatusWrite(w) ==
  /\ inv[w].pc = "statusWrite"
  /\ \E fail \in FailChoices :
       LET r == [inv[w] EXCEPT !.writes = @ + 1]
           ok == UpdateOK(r, fail)
       IN /\ Spend(fail)
          /\ StatusUpdate(r, ok)
          /\ hist' = HistAfterUpdate(r, ok)
          /\ Return(w, r, IF ok THEN "ok" ELSE "err", ok,
                    AfterUpdate(w, r, ok), queued \/ Changes(r, ok))
  /\ UNCHANGED <<adm, bld, keys, kids, depAvail, runningPod, lag, byRec, clock, nextUid>>

Reconcile(w) ==
  \/ GetModelServe(w)
  \/ InitStatus(w)
  \/ MiddlewareGet(w)
  \/ MiddlewareCreate(w)
  \/ DeploymentGet(w)
  \/ DownloadingStatus(w)
  \/ DeploymentCreate(w)
  \/ FailedStatus(w)
  \/ ServiceGet(w)
  \/ ServiceCreate(w)
  \/ IngressGet(w)
  \/ IngressCreate(w)
  \/ StatusStep(w)
  \/ StatusWrite(w)

Environment ==
  \/ CreateParent
  \/ DeleteParent
  \/ UpdateSpec
  \/ ExternalCreate
  \/ ExternalDelete
  \/ GarbageCollect
  \/ DeploymentStatus
  \/ CacheSync
  \/ Resync
  \/ Tick

\* The controller runs one Reconcile at a time for a key.
Next == Start(1) \/ Reconcile(1) \/ Environment
Spec == Init /\ [][Next]_vars

\* Fairness: the garbage collector, the informer cache with its periodic
\* resync of the ModelServe, and the worker keep running.  The clients
\* are not obliged to do anything.
FairSpec ==
  /\ Spec
  /\ WF_vars(GarbageCollect)
  /\ WF_vars(CacheSync)
  /\ WF_vars(Resync)
  /\ WF_vars(Start(1) \/ Reconcile(1))

\* ---------------------------------------------------- Reconcile alone
\* The behaviours in which nobody but Reconcile creates or deletes a
\* child: the clients act on the ModelServe only.
NextOwn ==
  \/ Start(1)
  \/ Reconcile(1)
  \/ CreateParent
  \/ DeleteParent
  \/ UpdateSpec
  \/ DeploymentStatus
  \/ CacheSync
  \/ Resync
  \/ Tick
SpecOwn == Init /\ [][NextOwn]_vars

\* ------------------------------------------------- after an interruption
\* The operator starts again after a call was cut short (a crash, an
\* expired context): any subset of the children exists, the persisted
\* phase has any value, the informer has listed the ModelServe and
\* enqueued its key, and the calls that follow have created nothing yet.
\* Store calls fail while the budget lasts and succeed from then on.
\* What one status write of Reconcile makes of a stored status st that
\* a call has read: the first Pending (only over an unset phase), the
\* Downloading and the Failed write, which replace phase and message and
\* keep the other fields, and the write of the status section, for any
\* count of available replicas and any answer of the pod List.
StatusWrites(st) ==
  IF st.phase = ""
    THEN {[st EXCEPT !.phase = "Pending",
             !.message = "Initializing model server"]}
  ELSE {[st EXCEPT !.phase = "Downloading",
           !.message = "Downloading model from MinIO"]}
       \cup {[st EXCEPT !.phase = "Failed",
                !.message = "Failed to create deployment: " \o e] :
               e \in {"already exists", "create failed"}}
       \cup {StatusRecompute(st, a, Name, 1, pod).m :
               a \in 0..MaxAvail, pod \in {""} \cup PodNames}
RECURSIVE StatusClosure(_)
StatusClosure(S) ==
  LET T == S \cup UNION {StatusWrites(st) : st \in S}
  IN IF T = S THEN S ELSE StatusClosure(T)
\* Every status calls of Reconcile can have left in the store.
PartialStatuses == StatusClosure({EmptyStatus})
InitPartial ==
  \E present \in SUBSET Kinds, status \in PartialStatuses, n \in 0..MaxAvail :
    /\ ms = [exists |-> TRUE, uid |-> 1, spec |-> DefaultedSpec,
             status |-> status]
    /\ kids = [k \in Kinds |->
                 IF k \in present THEN BuildChild(k, Parent(DefaultedSpec))
                 ELSE NoObj]
    /\ depAvail = IF "Deployment" \in present THEN n ELSE 0
    /\ runningPod = IF depAvail > 0 THEN CHOOSE p \in PodNames : TRUE ELSE ""
    /\ lag = {}
    /\ byRec = {}
    /\ queued = TRUE
    /\ inv = [w \in Workers |-> IdleInv]
    /\ clock = 1
    /\ nextUid = 2
    /\ budget = MaxEvents
    /\ lastRun = [w \in Workers |-> NoRun]
    /\ streak = 0
    /\ hist = NoHist
    /\ adm = NoAdm
    /\ bld = NoBld
    /\ keys = NoKeys
NextPartial == Start(1) \/ Reconcile(1) \/ CacheSync
SpecPartial == InitPartial /\ [][NextPartial]_vars
\* The informer cache and the worker keep running.
FairPartial ==
  /\ SpecPartial
  /\ WF_vars(CacheSync)
  /\ WF_vars(Start(1) \/ Reconcile(1))

\* ------------------------------------------------ racing invocations
\* Two Reconcile calls for the key, one per worker, in any interleaving
\* (two operator processes; the work queue of one process would not run
\* them together).  They start from a ModelServe whose first n children,
\* in Reconcile's order, have been created by earlier calls.
ChildOrder == <<"ConfigMap", "Deployment", "Service", "Ingress">>
FirstKids(n) == {ChildOrder[i] : i \in 1..n}
StatusAfter(n) ==
  IF n = 0 THEN EmptyStatus
  ELSE IF n = 1
    THEN [EmptyStatus EXCEPT !.phase = "Pending",
            !.message = "Initializing model server"]
    ELSE [EmptyStatus EXCEPT !.phase = "Downloading",
            !.message = "Downloading model from MinIO"]
InitRace ==
  \E n \in 0..Len(ChildOrder) :
    /\ ms = [exists |-> TRUE, uid |-> 1, spec |-> DefaultedSpec,
             status |-> StatusAfter(n)]
    /\ kids = [k \in Kinds |->
                 IF k \in FirstKids(n)
                   THEN BuildChild(k, Parent(DefaultedSpec))
                   ELSE NoObj]
    /\ depAvail = 0
    /\ runningPod = ""
    /\ lag = {}
    /\ byRec = FirstKids(n)
    /\ queued = FALSE
    /\ inv = [w \in Workers |-> IdleInv]
    /\ clock = 1
    /\ nextUid = 2
    /\ budget = 0
    /\ lastRun = [w \in Workers |-> NoRun]
    /\ streak = 0
    /\ hist = [pristine |-> TRUE, dipped |-> TRUE, ready |-> FALSE]
    /\ adm = NoAdm
    /\ bld = NoBld
    /\ keys = NoKeys
RaceStart(w) ==
  /\ inv[w].pc = "idle"
  /\ lastRun[w].result = "none"
  /\ inv' = [inv EXCEPT ![w] = [IdleInv EXCEPT !.pc = "get"]]
  /\ UNCHANGED <<adm, bld, keys, ms, kids, depAvail, runningPod, lag, byRec, queued, clock,
                 nextUid, budget, lastRun, streak, hist>>
RaceNext == (\E w \in Workers : RaceStart(w) \/ Reconcile(w)) \/ CacheSync
SpecRace == InitRace /\ [][RaceNext]_vars

\* ----------------------------------------------------- admission gate
\* The webhooks of the ModelServe type: Default (mutating, on create and
\* update) and ValidateCreate / ValidateUpdate / ValidateDelete.  An object
\* is its spec and its auth-token annotation: <<>> when the annotation is
\* absent, <<token>> when present.  Replicas is a *int32: <<>> is nil.
DefaultReplicas == 1
DefaultMemoryLimit == 4096
DefaultCPULimit == 2000
DefaultBucket == "inference-models"
DefaultEndpoint == "minio:9000"
MaxReplicas == 5
MaxMemoryLimit == 32768
MaxCPULimit == 16000
JwtSecret == "your-secret-key-change-in-production"

\* Mutant: the image is set to the default whatever the spec holds.
DefaultResettingImage(obj) ==
  LET s == obj.spec
  IN [obj EXCEPT !.spec =
        [s EXCEPT
           !.replicas = IF s.replicas = <<>> THEN <<DefaultReplicas>> ELSE @,
           !.memoryLimit = IF s.memoryLimit = 0 THEN DefaultMemoryLimit ELSE @,
           !.cpuLimit = IF s.cpuLimit = 0 THEN DefaultCPULimit ELSE @,
           !.minioBucket = IF s.minioBucket = "" THEN DefaultBucket ELSE @,
           !.minioEndpoint = IF s.minioEndpoint = "" THEN DefaultEndpoint
                             ELSE @,
           !.image = DefaultImage]]
\* Mutant: the memory default is forgotten.
DefaultWithoutMemory(obj) ==
  LET s == obj.spec
  IN [obj EXCEPT !.spec =
        [s EXCEPT
           !.replicas = IF s.replicas = <<>> THEN <<DefaultReplicas>> ELSE @,
           !.cpuLimit = IF s.cpuLimit = 0 THEN DefaultCPULimit ELSE @,
           !.minioBucket = IF s.minioBucket = "" THEN DefaultBucket ELSE @,
           !.minioEndpoint = IF s.minioEndpoint = "" THEN DefaultEndpoint
                             ELSE @,
           !.image = IF s.image = "" THEN DefaultImage ELSE @]]
Default(obj) ==
  LET s == obj.spec
  IN [obj EXCEPT !.spec =
        [s EXCEPT
           !.replicas = IF s.replicas = <<>> THEN <<DefaultReplicas>> ELSE @,
           !.memoryLimit = IF s.memoryLimit = 0 THEN DefaultMemoryLimit ELSE @,
           !.cpuLimit = IF s.cpuLimit = 0 THEN DefaultCPULimit ELSE @,
           !.minioBucket = IF s.minioBucket = "" THEN DefaultBucket ELSE @,
           !.minioEndpoint = IF s.minioEndpoint = "" THEN DefaultEndpoint
                             ELSE @,
           !.image = IF s.image = "" THEN DefaultImage ELSE @]]

\* A token segment is the text between two dots: whether
\* base64.RawURLEncoding decodes it, and what it decodes to.  The claims
\* record says whether json.Unmarshal accepts the payload, and Exp and Type
\* as it fills them in.
B64(body) == [b64 |-> TRUE, body |-> body]
\* HMAC-SHA256 of `input` under `key`, taken to be free of collisions.
HmacSha256(key, input) == [key |-> key, over |-> input]
\* base64(HMAC(secret, parts[0] + "." + parts[1]))
ExpectedSignature(parts) == B64(HmacSha256(JwtSecret, <<parts[1], parts[2]>>))

\* Mutant: a token is taken as expired at the second of its expiry.
validateJWTExpiresEarly(obj, now) ==
  IF obj.ann = <<>> THEN ""
  ELSE LET parts == obj.ann[1] IN
    IF Len(parts) # 3 THEN "invalid JWT format"
    ELSE IF ~parts[1].b64 THEN "invalid JWT header"
    ELSE IF ~parts[2].b64 THEN "invalid JWT payload"
    ELSE IF ~parts[2].body.json THEN "invalid JWT claims"
    ELSE IF parts[3] # ExpectedSignature(parts) THEN "invalid JWT signature"
    ELSE IF parts[2].body.exp <= now THEN "JWT token has expired"
    ELSE IF parts[2].body.type # "internal" /\ parts[2].body.type # "user"
      THEN "invalid token type: " \o parts[2].body.type
    ELSE ""
\* validateJWT: the error it returns, "" for nil.
validateJWT(obj, now) ==
  IF obj.ann = <<>> THEN ""
  ELSE LET parts == obj.ann[1] IN
    IF Len(parts) # 3 THEN "invalid JWT format"
    ELSE IF ~parts[1].b64 THEN "invalid JWT header"
    ELSE IF ~parts[2].b64 THEN "invalid JWT payload"
    ELSE IF ~parts[2].body.json THEN "invalid JWT claims"
    ELSE IF parts[3] # ExpectedSignature(parts) THEN "invalid JWT signature"
    ELSE IF parts[2].body.exp < now THEN "JWT token has expired"
    ELSE IF parts[2].body.type # "internal" /\ parts[2].body.type # "user"
      THEN "invalid token type: " \o parts[2].body.type
    ELSE ""

\* Mutant: minioPath is tested before modelUuid.
ValidateCreatePathFirst(obj, now) ==
  LET s == obj.spec IN
  IF validateJWT(obj, now) # "" THEN validateJWT(obj, now)
  ELSE IF s.modelName = "" THEN "modelName is required"
  ELSE IF s.minioPath = "" THEN "minioPath is required"
  ELSE IF s.modelUUID = "" THEN "modelUuid is required"
  ELSE IF s.replicas # <<>> /\ s.replicas[1] > MaxReplicas
    THEN "replicas cannot exceed 5"
  ELSE IF s.memoryLimit > MaxMemoryLimit
    THEN "memoryLimit cannot exceed 32768 MB (32GB)"
  ELSE IF s.cpuLimit > MaxCPULimit
    THEN "cpuLimit cannot exceed 16000m (16 cores)"
  ELSE ""
ValidateCreate(obj, now) ==
  LET s == obj.spec IN
  IF validateJWT(obj, now) # "" THEN validateJWT(obj, now)
  ELSE IF s.modelName = "" THEN "modelName is required"
  ELSE IF s.modelUUID = "" THEN "modelUuid is required"
  ELSE IF s.minioPath = "" THEN "minioPath is required"
  ELSE IF s.replicas # <<>> /\ s.replicas[1] > MaxReplicas
    THEN "replicas cannot exceed 5"
  ELSE IF s.memoryLimit > MaxMemoryLimit
    THEN "memoryLimit cannot exceed 32768 MB (32GB)"
  ELSE IF s.cpuLimit > MaxCPULimit
    THEN "cpuLimit cannot exceed 16000m (16 cores)"
  ELSE ""
ValidateUpdate(obj, now) ==
  LET s == obj.spec IN
  IF validateJWT(obj, now) # "" THEN validateJWT(obj, now)
  ELSE IF s.replicas # <<>> /\ s.replicas[1] > MaxReplicas
    THEN "replicas cannot exceed 5"
  ELSE ""
\* Mutant: a delete is validated like an update.
ValidateDeleteLikeUpdate(obj, now) == ValidateUpdate(obj, now)
ValidateDelete(obj, now) ==
  IF validateJWT(obj, now) # "" THEN validateJWT(obj, now) ELSE ""

\* The requests tried.
Verbs == {"create", "update", "delete"}
AdmTimes == {100}
Exps == {99, 100, 101}
TokenTypes == {"internal", "user", "guest", ""}
Specs ==
  [modelName : {"", "Qwen.gguf"},
   modelUUID : {"", "u-1"},
   minioPath : {"", "models/Qwen.gguf"},
   runtimeParams : {"", "--ctx-size 2048"},
   minioEndpoint : {"", "minio.example:9000"},
   minioBucket : {"", "models"},
   image : {"", "registry.example/llama:v2"},
   replicas : {<<>>, <<-1>>, <<0>>, <<1>>, <<5>>, <<6>>},
   memoryLimit : {0, 8192, 32768, 40000},
   cpuLimit : {0, 16000, 20000}]
Header == B64("header")
BadHeader == [b64 |-> FALSE, body |-> "header"]
Claims(exp, type) == [json |-> TRUE, exp |-> exp, type |-> type]
NoClaims == [json |-> FALSE, exp |-> 0, type |-> ""]
Payloads ==
  {B64(Claims(e, t)) : e \in Exps, t \in TokenTypes}
    \cup {B64(NoClaims), [b64 |-> FALSE, body |-> NoClaims]}
Sign(key, h, p) == B64(HmacSha256(key, <<h, p>>))
GoodPayload == B64(Claims(101, "user"))
Signatures(h, p) ==
  {Sign(JwtSecret, h, p), Sign("another-secret", h, p),
   Sign(JwtSecret, h, B64(Claims(101, "internal")))}
Tokens ==
  {<<h, p, s>> : h \in {Header, BadHeader}, p \in Payloads,
                 s \in Signatures(Header, GoodPayload)
                        \cup Signatures(BadHeader, GoodPayload)}
    \cup UNION {{<<h, p, s>> : s \in Signatures(h, p)} :
                  h \in {Header, BadHeader}, p \in Payloads}
    \cup {<<Header>>,
          <<Header, GoodPayload, Sign(JwtSecret, Header, GoodPayload),
            Sign(JwtSecret, Header, GoodPayload)>>}
Annotations == {<<>>} \cup {<<t>> : t \in Tokens}
GoodToken == <<Header, GoodPayload, Sign(JwtSecret, Header, GoodPayload)>>
ExpiredPayload == B64(Claims(99, "user"))
ExpiredToken ==
  <<Header, ExpiredPayload, Sign(JwtSecret, Header, ExpiredPayload)>>
FewSpecs ==
  {s \in Specs :
     /\ s.minioEndpoint = "" /\ s.minioBucket = "" /\ s.image = ""
     /\ s.runtimeParams = ""
     /\ (s.modelName = "") = (s.modelUUID = "") /\ s.minioPath # ""
     /\ s.replicas \in {<<>>, <<6>>}
     /\ s.memoryLimit \in {0, 40000} /\ s.cpuLimit = 0}
Objects ==
  {[spec |-> s, ann |-> a] :
     s \in Specs, a \in {<<>>, <<GoodToken>>, <<ExpiredToken>>}}
    \cup {[spec |-> s, ann |-> a] : s \in FewSpecs, a \in Annotations}

\* The variables of the operator, which the admission gate does not touch.
operatorVars ==
  <<ms, kids, depAvail, runningPod, lag, byRec, queued, inv, clock, nextUid,
    budget, lastRun, streak, hist>>
InitAdmission ==
  /\ ms = NoMS
  /\ kids = [k \in Kinds |-> NoObj]
  /\ depAvail = 0
  /\ runningPod = ""
  /\ lag = {}
  /\ byRec = {}
  /\ queued = FALSE
  /\ inv = [w \in Workers |-> IdleInv]
  /\ clock = 1
  /\ nextUid = 1
  /\ budget = 0
  /\ lastRun = [w \in Workers |-> NoRun]
  /\ streak = 0
  /\ hist = NoHist
  /\ bld = NoBld
  /\ keys = NoKeys
  /\ adm \in {[stage |-> "submitted", verb |-> v, req |-> o, obj |-> o,
               now |-> t, reason |-> ""] :
                v \in Verbs, o \in Objects, t \in AdmTimes}
\* The mutating webhook (verbs=create;update) calls Default.
AdmitDefault ==
  /\ adm.stage = "submitted"
  /\ adm.verb \in {"create", "update"}
  /\ adm' = [adm EXCEPT !.stage = "defaulted", !.obj = Default(adm.obj)]
  /\ UNCHANGED <<operatorVars, bld, keys>>
\* The validating webhook (verbs=create;update;delete) calls the Validate
\* method of the verb; its error rejects the request.
AdmitValidate ==
  /\ \/ adm.stage = "defaulted"
     \/ adm.stage = "submitted" /\ adm.verb = "delete"
  /\ adm' = [adm EXCEPT !.stage = "decided",
               !.reason = CASE adm.verb = "create" ->
                                 ValidateCreate(adm.obj, adm.now)
                            [] adm.verb = "update" ->
                                 ValidateUpdate(adm.obj, adm.now)
                            [] OTHER -> ValidateDelete(adm.obj, adm.now)]
  /\ UNCHANGED <<operatorVars, bld, keys>>
NextAdmission == AdmitDefault \/ AdmitValidate
SpecAdmission == InitAdmission /\ [][NextAdmission]_vars

\* -------------------------------------------------- the builders alone
\* The builders followed on their own: the children Reconcile builds for
\* a ModelServe m and for another ModelServe of the cluster, and the
\* status Reconcile computes for m once its children are found.
ParentNames == {"demo", "demo2", "demo-stripprefix"}
Namespaces == {"default", "prod"}
\* MemoryLimit and CPULimit are int32 fields; 0 is the unset value.
MemoryLimits == {-4096, -5, 0, 1, 4097, 32768}
CPULimits == {-3, 0, 1, 2001, 16000}
BuilderSpecs ==
  [image : {"", "registry.example/llama:v2"},
   memoryLimit : MemoryLimits,
   cpuLimit : CPULimits,
   replicas : {<<>>, <<0>>, <<3>>},
   minioEndpoint : {"", "minio.example:9000"},
   minioBucket : {"", "models"}]
InitBuild ==
  /\ ms = NoMS
  /\ kids = [k \in Kinds |-> NoObj]
  /\ depAvail = 0
  /\ runningPod = ""
  /\ lag = {}
  /\ byRec = {}
  /\ queued = FALSE
  /\ inv = [w \in Workers |-> IdleInv]
  /\ clock = 1
  /\ nextUid = 1
  /\ budget = 0
  /\ lastRun = [w \in Workers |-> NoRun]
  /\ streak = 0
  /\ hist = NoHist
  /\ adm = NoAdm
  /\ keys = NoKeys
  /\ bld \in {[stage |-> "read", m |-> ModelServe(n, ns, spec),
               other |-> ModelServe(n2, ns2, DefaultedSpec),
               avail |-> a] :
                n \in ParentNames, ns \in Namespaces, spec \in BuilderSpecs,
                n2 \in ParentNames, ns2 \in Namespaces, a \in 0..MaxAvail}
\* Reconcile's calls of the four builders for both objects, its status
\* section for m, and the Deployment built for m had the defaulting
\* webhook been applied to it.
BuildChildren ==
  /\ bld.stage = "read"
  /\ bld' = [stage |-> "built", m |-> bld.m, other |-> bld.other,
             avail |-> bld.avail,
             kids |-> [k \in Kinds |-> BuildChild(k, bld.m)],
             otherKids |-> [k \in Kinds |-> BuildChild(k, bld.other)],
             defaulted |-> deploymentForModelServe(
                             [bld.m EXCEPT !.spec = Default(bld.m).spec]),
             status |-> StatusRecompute(EmptyStatus, bld.avail, bld.m.name,
                                        clock, "").m]
  /\ UNCHANGED <<operatorVars, adm, keys>>
NextBuild == BuildChildren
SpecBuild == InitBuild /\ [][NextBuild]_vars

\* ---------------------------------------------------------- two keys
\* Two ModelServes of one namespace reconciled by two workers, one key
\* each, in any interleaving of their API calls.  The store is one set of
\* objects for both keys, addressed by kind, namespace and name as the
\* builders compute them, and listed by label; it answers from its
\* current content (API failures and the lagging cache are followed for
\* one key in Spec).
KeyNames == {"demo", "demo-stripprefix"}
\* The specs of the two ModelServes: the second asks for its own image.
KeySpecs ==
  [n \in KeyNames |->
     IF n = "demo" THEN DefaultedSpec
     ELSE [DefaultedSpec EXCEPT !.image = "registry.example/llama:v2"]]
\* The locals of a Reconcile call: position, the child kind it is at, the
\* ModelServe status it holds and the availableReplicas of the Deployment
\* it found.
IdleRun == [pc |-> "idle", kind |-> "", m |-> EmptyStatus, avail |-> 0]
InitKeys ==
  /\ ms = NoMS
  /\ kids = [k \in Kinds |-> NoObj]
  /\ depAvail = 0
  /\ runningPod = ""
  /\ lag = {}
  /\ byRec = {}
  /\ queued = FALSE
  /\ inv = [w \in Workers |-> IdleInv]
  /\ clock = 1
  /\ nextUid = 1
  /\ budget = 0
  /\ lastRun = [w \in Workers |-> NoRun]
  /\ streak = 0
  /\ hist = NoHist
  /\ adm = NoAdm
  /\ bld = NoBld
  /\ keys = [stage |-> "keys", spec |-> KeySpecs, store |-> {},
             status |-> [n \in KeyNames |-> EmptyStatus],
             run |-> [n \in KeyNames |-> IdleRun],
             queued |-> [n \in KeyNames |-> TRUE],
             acc |-> [n \in KeyNames |-> {}]]

\* types.NamespacedName of an object, with its kind.
ObjectKey(k, obj) == <<k, obj.namespace, obj.name>>
ParentKey(n) == <<"ModelServe", Namespace, n>>
KeyParent(K, n) == ModelServe(n, Namespace, K.spec[n])
\* r.Get of the object of kind k named as obj: the stored entries of that
\* key (none or one).
StoreGet(K, k, obj) ==
  {e \in K.store : e.kind = k /\ ObjectKey(k, e.body) = ObjectKey(k, obj)}
\* client.MatchingLabels(sel) on an object with these labels.
MatchingLabels(sel, labels) ==
  \A f \in DOMAIN sel : f \in DOMAIN labels /\ labels[f] = sel[f]
\* r.List of the pods of the namespace matching labelsForModelServe(n).
ListPods(K, n) ==
  {e \in K.store : /\ e.kind = "Pod"
                   /\ e.body.namespace = Namespace
                   /\ MatchingLabels(labelsForModelServe(n), e.body.labels)}
\* The name of the first Running pod of the list, in any order of the
\* list; "" when there is none or the list is not made.
PodChoices(K, n) ==
  LET running == {e \in ListPods(K, n) : e.body.phase = "Running"}
  IN IF K.run[n].avail > 0 /\ running # {}
       THEN {e.body.name : e \in running} ELSE {""}
\* History: the object keys the calls for key n have read, created or
\* written.
Acc(K, n, ids) == [K EXCEPT !.acc[n] = @ \cup ids]
KeyReturn(K, n, requeue) ==
  [K EXCEPT !.run[n] = IdleRun, !.queued[n] = @ \/ requeue]
NextKind(k) ==
  CASE k = "ConfigMap" -> "Deployment"
    [] k = "Deployment" -> "Service"
    [] OTHER -> "Ingress"

\* The steps of a Reconcile call for key n, as functions of the state K.
KeyStartStep(K, n) ==
  [K EXCEPT !.queued[n] = FALSE, !.run[n] = [IdleRun EXCEPT !.pc = "get"]]
KeyGetStep(K, n) ==
  Acc([K EXCEPT !.run[n].m = K.status[n],
         !.run[n].pc = IF K.status[n].phase = "" THEN "init" ELSE "childGet",
         !.run[n].kind = "ConfigMap"],
      n, {ParentKey(n)})
KeyInitStep(K, n) ==
  LET m == [K.run[n].m EXCEPT !.phase = "Pending",
              !.message = "Initializing model server"]
  IN Acc([K EXCEPT !.run[n].m = m, !.status[n] = m,
            !.run[n].pc = "childGet"],
         n, {ParentKey(n)})
KeyChildGetStep(K, n) ==
  LET k == K.run[n].kind
      obj == BuildChild(k, KeyParent(K, n))
      found == StoreGet(K, k, obj)
      r == K.run[n]
      r2 == IF found = {}
              THEN [r EXCEPT !.pc = IF k = "Deployment" THEN "downloading"
                                    ELSE "childCreate"]
            ELSE IF k = "Ingress" THEN [r EXCEPT !.pc = "status"]
            ELSE [r EXCEPT !.kind = NextKind(k),
                    !.avail = IF k = "Deployment"
                                THEN (CHOOSE e \in found : TRUE).avail
                                ELSE @]
  IN Acc([K EXCEPT !.run[n] = r2], n, {ObjectKey(k, obj)})
KeyDownloadingStep(K, n) ==
  LET m == [K.run[n].m EXCEPT !.phase = "Downloading",
              !.message = "Downloading model from MinIO"]
  IN Acc([K EXCEPT !.run[n].m = m, !.status[n] = m,
            !.run[n].pc = "childCreate"],
         n, {ParentKey(n)})
\* r.Create: AlreadyExists when the key is taken.  The ConfigMap's error
\* and the Service's and Ingress's are returned; the Deployment's sets
\* phase Failed and the message in the local copy, to be written next.
KeyChildCreateStep(K, n) ==
  LET k == K.run[n].kind
      obj == BuildChild(k, KeyParent(K, n))
      taken == StoreGet(K, k, obj) # {}
      created == [K EXCEPT !.store =
                    @ \cup {[kind |-> k, body |-> obj, avail |-> 0,
                             by |-> n]}]
      failed == [K.run[n].m EXCEPT !.phase = "Failed",
                   !.message = "Failed to create deployment: already exists"]
  IN Acc(IF ~taken
           THEN IF k = "ConfigMap"
                  THEN [created EXCEPT !.run[n].kind = "Deployment",
                          !.run[n].pc = "childGet"]
                  ELSE KeyReturn(created, n, TRUE)
         ELSE IF k = "Deployment"
           THEN [K EXCEPT !.run[n].m = failed, !.run[n].pc = "failed"]
         ELSE KeyReturn(K, n, TRUE),
         n, {ObjectKey(k, obj)})
\* r.Status().Update with phase Failed, then return of the create's
\* error.
KeyFailedStep(K, n) ==
  Acc(KeyReturn([K EXCEPT !.status[n] = K.run[n].m], n, TRUE),
      n, {ParentKey(n)})
\* The status section with its pod List; without a change Reconcile
\* returns here.
KeyStatusStep(K, n, pod) ==
  LET st == StatusRecompute(K.run[n].m, K.run[n].avail, n, clock, pod)
      listed == IF K.run[n].avail > 0
                  THEN {ObjectKey("Pod", e.body) : e \in ListPods(K, n)}
                  ELSE {}
  IN Acc(IF st.needs
           THEN [K EXCEPT !.run[n].m = st.m, !.run[n].pc = "write"]
           ELSE KeyReturn(K, n, FALSE),
         n, listed)
KeyWriteStep(K, n) ==
  Acc(KeyReturn([K EXCEPT !.status[n] = K.run[n].m], n, FALSE),
      n, {ParentKey(n)})

At(n, pc) == keys.stage = "keys" /\ keys.run[n].pc = pc
KeyStart(n) ==
  /\ At(n, "idle")
  /\ keys.queued[n]
  /\ keys' = KeyStartStep(keys, n)
  /\ UNCHANGED <<operatorVars, adm, bld>>
KeyGet(n) ==
  /\ At(n, "get")
  /\ keys' = KeyGetStep(keys, n)
  /\ UNCHANGED <<operatorVars, adm, bld>>
KeyInit(n) ==
  /\ At(n, "init")
  /\ keys' = KeyInitStep(keys, n)
  /\ UNCHANGED <<operatorVars, adm, bld>>
KeyChildGet(n) ==
  /\ At(n, "childGet")
  /\ keys' = KeyChildGetStep(keys, n)
  /\ UNCHANGED <<operatorVars, adm, bld>>
KeyDownloading(n) ==
  /\ At(n, "downloading")
  /\ keys' = KeyDownloadingStep(keys, n)
  /\ UNCHANGED <<operatorVars, adm, bld>>
KeyChildCreate(n) ==
  /\ At(n, "childCreate")
  /\ keys' = KeyChildCreateStep(keys, n)
  /\ UNCHANGED <<operatorVars, adm, bld>>
KeyFailed(n) ==
  /\ At(n, "failed")
  /\ keys' = KeyFailedStep(keys, n)
  /\ UNCHANGED <<operatorVars, adm, bld>>
KeyStatus(n) ==
  /\ At(n, "status")
  /\ \E pod \in PodChoices(keys, n) :
       keys' = KeyStatusStep(keys, n, pod)
  /\ UNCHANGED <<operatorVars, adm, bld>>
KeyWrite(n) ==
  /\ At(n, "write")
  /\ keys' = KeyWriteStep(keys, n)
  /\ UNCHANGED <<operatorVars, adm, bld>>
\* The controller's periodic resync puts the key back into the queue.
KeyResync(n) ==
  /\ keys.stage = "keys"
  /\ ~keys.queued[n]
  /\ keys' = [keys EXCEPT !.queued[n] = TRUE]
  /\ UNCHANGED <<operatorVars, adm, bld>>
\* Someone other than the operator creates a Deployment under the name
\* the builder gives the Deployment of key n (by is "" for it).
KeyExternalCreate(n) ==
  /\ keys.stage = "keys"
  /\ LET obj == BuildChild("Deployment", KeyParent(keys, n))
     IN /\ StoreGet(keys, "Deployment", obj) = {}
        /\ keys' = [keys EXCEPT !.store =
             @ \cup {[kind |-> "Deployment", body |-> obj, avail |-> 0,
                      by |-> ""]}]
  /\ UNCHANGED <<operatorVars, adm, bld>>
\* The Deployment controller brings up a replica of a stored Deployment:
\* a Running pod with the template's labels, and one more available
\* replica in the Deployment's status.
KeyDeploymentStatus ==
  /\ keys.stage = "keys"
  /\ \E e \in keys.store :
       /\ e.kind = "Deployment"
       /\ e.avail < MaxAvail
       /\ keys' = [keys EXCEPT !.store =
            (@ \ {e}) \cup
              {[e EXCEPT !.avail = @ + 1],
               [kind |-> "Pod",
                body |-> [name |-> e.body.name \o "-pod",
                          namespace |-> e.body.namespace,
                          labels |-> e.body.templateLabels,
                          phase |-> "Running"],
                avail |-> 0, by |-> e.by]}]
  /\ UNCHANGED <<operatorVars, adm, bld>>
NextKeys ==
  \/ \E n \in KeyNames :
       \/ KeyStart(n)
       \/ KeyGet(n)
       \/ KeyInit(n)
       \/ KeyChildGet(n)
       \/ KeyDownloading(n)
       \/ KeyChildCreate(n)
       \/ KeyFailed(n)
       \/ KeyStatus(n)
       \/ KeyWrite(n)
       \/ KeyResync(n)
       \/ KeyExternalCreate(n)
  \/ KeyDeploymentStatus
SpecKeys == InitKeys /\ [][NextKeys]_vars

\* ------------------------------------------------------------ claims
\* Worker w's Reconcile call returns in this step.
Returns(w) == inv[w].pc # "idle" /\ inv'[w].pc = "idle"
\* The ModelServe worker w read is still the stored one after the step.
SameObject(w) == ms'.exists /\ ms'.uid = inv[w].uid
\* In this step worker w's create of k is answered AlreadyExists.
AnsweredExists(w, k, at) ==
  inv[w].pc = at /\ kids[k].exists /\ budget' = budget
ChildrenGone ==
  \A k \in OwnedKinds : ~kids[k].exists

\* C1: a Reconcile call that follows a converged call (one that returned
\* without error and without requeue) with no external change in between
\* creates no child and issues no status write.
C1_Idempotent ==
  [][Returns(1) /\ streak' = 2
       => /\ inv[1].creates = 0
          /\ inv[1].writes = 0
          /\ inv[1].pc # "statusWrite"]_vars

\* C2: a create answered AlreadyExists is a success: the step does not
\* make Reconcile return an error, and for the workload it does not set
\* phase Failed.
C2_AlreadyExistsIsSuccess ==
  [][\A w \in Workers :
       /\ \A k \in {"ConfigMap", "Service", "Ingress"} :
            AnsweredExists(w, k,
              CASE k = "ConfigMap" -> "cmCreate"
                [] k = "Service" -> "svcCreate"
                [] OTHER -> "ingCreate")
              => ~(Returns(w) /\ lastRun'[w].result = "err")
       /\ AnsweredExists(w, "Deployment", "depCreate")
            => inv'[w].m.phase # "Failed"]_vars

\* C3: after two racing Reconcile calls that both tried to create the same
\* child, that child exists, not both calls returned an error, and the
\* persisted phase is not Failed.
C3_RaceIsHarmless ==
  (/\ \A w \in Workers : inv[w].pc = "idle" /\ lastRun[w].result # "none"
   /\ lastRun[1].tried \cap lastRun[2].tried # {})
    => /\ \A k \in lastRun[1].tried \cap lastRun[2].tried : kids[k].exists
       /\ ~(\A w \in Workers : lastRun[w].result = "err")
       /\ ms.status.phase # "Failed"

\* C4: every child Reconcile created carries an owner reference to the
\* ModelServe.
C4_ChildrenHaveOwner ==
  \A k \in byRec : kids[k].exists => kids[k].owners # {}

\* C5: once the ModelServe is deleted, its workload, network endpoint and
\* route are eventually gone (or the ModelServe has been created again).
C5_CascadingDeletion == (~ms.exists) ~> (ms.exists \/ ChildrenGone)

\* C6: a change of the available replicas of the workload Reconcile
\* created for the ModelServe puts the ModelServe's key into the work
\* queue; and if from some moment on the ModelServe and that workload
\* stay, the workload with a replica available, and no store call has
\* failed, then phase Running with startedAt set is eventually persisted.
C6_EventuallyRunning ==
  /\ [][(/\ ms.exists /\ ms' = ms
         /\ kids["Deployment"].exists /\ "Deployment" \in byRec
         /\ kids' = kids
         /\ depAvail' # depAvail)
          => queued']_vars
  /\ (<>[](/\ ms.exists /\ hist.pristine
           /\ kids["Deployment"].exists /\ "Deployment" \in byRec
           /\ depAvail > 0)
        => <>(ms.exists /\ ms.status.phase = "Running"
              /\ ms.status.startedAt # 0))

\* C7: once startedAt of a ModelServe is set, no step changes it.
C7_StartedAtOnce ==
  [][(ms.exists /\ ms'.exists /\ ms'.uid = ms.uid /\ ms.status.startedAt # 0)
       => ms'.status.startedAt = ms.status.startedAt]_vars

\* A change of the persisted phase of the first ModelServe of its name,
\* nothing out of the ordinary having happened: no store call has
\* failed, and no one has touched a child, updated the spec or created
\* the ModelServe again.
PhaseChange ==
  /\ budget = MaxEvents /\ budget' = MaxEvents
  /\ ms.exists /\ ms'.exists /\ ms'.uid = ms.uid
  /\ ms'.status.phase # ms.status.phase
FirstOrder ==
  {<<"", "Pending">>, <<"Pending", "Downloading">>,
   <<"Downloading", "Running">>}
\* C8: the persisted phase of a fresh object moves Pending, Downloading,
\* Running, in that order; the one other change is the one the rule for
\* Running prescribes, from Running to Pending when the replicas are
\* gone and back to Running when they return.
C8_PhaseOrder ==
  [][PhaseChange =>
       \/ <<ms.status.phase, ms'.status.phase>> \in FirstOrder
       \/ /\ ms.status.startedAt # 0
          /\ <<ms.status.phase, ms'.status.phase>> \in
               {<<"Running", "Pending">>, <<"Pending", "Running">>}]_vars

\* C9: while the workload has stayed at more than 0 available replicas
\* since Running was persisted, no step turns Running into Pending.
C9_NoRegression ==
  [][(/\ ms.exists /\ ms.status.phase = "Running"
      /\ ms'.exists /\ ms'.uid = ms.uid
      /\ ~hist.dipped /\ ~hist'.dipped)
       => ms'.status.phase # "Pending"]_vars
C9_Witness ==
  /\ ms.exists
  /\ ms.status.phase = "Running"
  /\ ~hist.dipped
  /\ streak = 2

\* C10 as claimed: whenever Reconcile returns without error, the persisted
\* availableReplicas is the count it observed on the workload.
C10_AnyReturn ==
  [][(/\ Returns(1) /\ SameObject(1)
      /\ lastRun'[1].result \in {"ok", "requeue"})
       => ms'.status.availableReplicas = inv[1].foundAvail]_vars
\* C10 amended: whenever Reconcile returns without error and without
\* requeue, the persisted availableReplicas of the ModelServe it read is
\* the count it observed on the workload.
C10_StatusDerivation ==
  [][(/\ Returns(1) /\ SameObject(1)
      /\ lastRun'[1].result = "ok")
       => ms'.status.availableReplicas = inv[1].foundAvail]_vars
C10_Witness ==
  /\ inv[1].pc = "idle"
  /\ lastRun[1].result = "ok"
  /\ ms.exists
  /\ ms.status.availableReplicas > 0
  /\ ms.status.availableReplicas = depAvail

\* C11: once the persisted phase is Failed, no step that leaves the spec of
\* the ModelServe as it is moves the phase to another value.
C11_FailedIsTerminal ==
  [][(/\ ms.exists /\ ms.status.phase = "Failed"
      /\ ms'.exists /\ ms'.uid = ms.uid /\ ms'.spec = ms.spec)
       => ms'.status.phase = "Failed"]_vars

\* In this step a store call of worker w's Reconcile fails with an error
\* of its own (not NotFound, not AlreadyExists).
TransientFailure(w) ==
  /\ inv[w].pc # "idle"
  /\ inv'[w].pc # inv[w].pc
  /\ budget' = budget - 1
SamePhaseAndMessage ==
  /\ ms'.status.phase = ms.status.phase
  /\ ms'.status.message = ms.status.message
\* C12: a store call of Reconcile that fails with a transient error leaves
\* the persisted phase and message as they were and makes Reconcile return
\* the error; the return that follows a Deployment create that failed so
\* leaves them as they were as well.  (The return is not asked of the pod
\* List and of the write of phase Downloading, whose errors Reconcile
\* drops by design of lines 497-502 and 594.)
C12_TransientNotRecorded ==
  [][\A w \in Workers :
       /\ TransientFailure(w) =>
            /\ SamePhaseAndMessage
            /\ \/ Returns(w) /\ lastRun'[w].result = "err"
               \/ inv[w].pc \in {"depCreate", "depDownloading", "status"}
       /\ (inv[w].pc = "depFailed" /\ ~inv[w].ae /\ Returns(w)) =>
            /\ SamePhaseAndMessage
            /\ lastRun'[w].result = "err"]_vars

\* C13: the status step goes on to the status write only if the
\* recomputed status differs from the status the call held before.
C13_WriteOnlyOnChange ==
  [][\A w \in Workers :
       (inv[w].pc = "status" /\ inv'[w].pc = "statusWrite")
         => inv'[w].m # inv[w].m]_vars

\* In this step worker w's Reconcile call executes one of its store calls.
ReconcileStep(w) == inv[w].pc # "idle" /\ inv'[w].pc # inv[w].pc
\* C14: no step of Reconcile changes or removes a child that exists, also
\* when the spec of the ModelServe is no longer the one the child was
\* built from.
C14_FirstWriteWins ==
  [][\A w \in Workers, k \in Kinds :
       (ReconcileStep(w) /\ kids[k].exists) => kids'[k] = kids[k]]_vars
\* The image was changed after Reconcile created the Deployment, and
\* Reconcile has since run to a converged return.
C14_Witness ==
  /\ ms.exists
  /\ "Deployment" \in byRec
  /\ kids["Deployment"].image # ms.spec.image
  /\ streak >= 1

\* ---------------------------------------------- claims, admission gate
Decided(verb) == adm.stage = "decided" /\ adm.verb = verb
Admitted == adm.stage = "decided" /\ adm.reason = ""
\* The token check as the specification words it: no annotation, or a
\* token of three segments whose header and payload decode, whose
\* signature segment is the HMAC of "header.payload" under the secret,
\* whose expiry is not before now and whose type is internal or user.
TokenAccepts(obj, now) ==
  \/ obj.ann = <<>>
  \/ /\ Len(obj.ann[1]) = 3
     /\ obj.ann[1][1].b64
     /\ obj.ann[1][2].b64
     /\ obj.ann[1][2].body.json
     /\ obj.ann[1][3] = Sign(JwtSecret, obj.ann[1][1], obj.ann[1][2])
     /\ ~(obj.ann[1][2].body.exp < now)
     /\ obj.ann[1][2].body.type \in {"internal", "user"}
AuthErrors ==
  {"invalid JWT format", "invalid JWT header", "invalid JWT payload",
   "invalid JWT claims", "invalid JWT signature", "JWT token has expired"}
    \cup {"invalid token type: " \o t : t \in TokenTypes}
RequiredErrors ==
  {"modelName is required", "modelUuid is required", "minioPath is required"}
RequiredSet(spec) ==
  spec.modelName # "" /\ spec.modelUUID # "" /\ spec.minioPath # ""
OptionalUnset(spec) ==
  /\ spec.replicas = <<>> /\ spec.memoryLimit = 0 /\ spec.cpuLimit = 0
  /\ spec.minioBucket = "" /\ spec.minioEndpoint = "" /\ spec.image = ""
OverBounds(spec) ==
  \/ spec.replicas # <<>> /\ spec.replicas[1] > 5
  \/ spec.memoryLimit > 32768
  \/ spec.cpuLimit > 16000

\* C15: a create request with the required fields set, the optional
\* fields unset or zero and a passing token check is accepted after
\* defaulting, with replicas 1, memoryLimit 4096, cpuLimit 2000 and the
\* default bucket, endpoint and image.
C15_DefaultThenValidate ==
  (/\ Decided("create")
   /\ RequiredSet(adm.req.spec) /\ OptionalUnset(adm.req.spec)
   /\ TokenAccepts(adm.req, adm.now))
    => /\ adm.reason = ""
       /\ adm.obj.spec.replicas = <<1>>
       /\ adm.obj.spec.memoryLimit = 4096
       /\ adm.obj.spec.cpuLimit = 2000
       /\ adm.obj.spec.minioBucket = "inference-models"
       /\ adm.obj.spec.minioEndpoint = "minio:9000"
       /\ adm.obj.spec.image = "ghcr.io/ggerganov/llama.cpp:server"
       /\ adm.obj.spec.modelName = adm.req.spec.modelName
C15_Witness ==
  /\ Admitted /\ adm.verb = "create"
  /\ RequiredSet(adm.req.spec) /\ OptionalUnset(adm.req.spec)
  /\ adm.obj.spec.memoryLimit = 4096

\* C16: a create or an update whose candidate has replicas > 5,
\* memoryLimit > 32768 or cpuLimit > 16000 is rejected.
C16_BoundRejection ==
  (/\ adm.stage = "decided" /\ adm.verb \in {"create", "update"}
   /\ OverBounds(adm.obj.spec))
    => adm.reason # ""

\* C17: an object admitted on create or update has 1 <= replicas <= 5.
C17_ReplicaInvariant ==
  (Admitted /\ adm.verb \in {"create", "update"})
    => /\ adm.obj.spec.replicas # <<>>
       /\ adm.obj.spec.replicas[1] >= 1
       /\ adm.obj.spec.replicas[1] <= 5

\* C18: a create with an empty modelName, modelUUID or minioPath is
\* rejected, and when its token check passes the reason names the first
\* empty field in that order; an update is never rejected for a required
\* field: with a passing token check and replicas within the bound it is
\* accepted whatever the required fields are.
C18_RequiredOnCreateOnly ==
  /\ (Decided("create") /\ ~RequiredSet(adm.obj.spec)) =>
       /\ adm.reason # ""
       /\ TokenAccepts(adm.obj, adm.now) =>
            adm.reason =
              IF adm.obj.spec.modelName = "" THEN "modelName is required"
              ELSE IF adm.obj.spec.modelUUID = "" THEN "modelUuid is required"
              ELSE "minioPath is required"
  /\ Decided("update") =>
       /\ adm.reason \notin RequiredErrors
       /\ (/\ TokenAccepts(adm.obj, adm.now)
           /\ adm.obj.spec.replicas[1] <= 5) => adm.reason = ""
C18_Witness ==
  /\ Decided("create")
  /\ adm.obj.spec.modelName # "" /\ adm.obj.spec.modelUUID = ""
  /\ adm.obj.spec.minioPath = ""
  /\ adm.reason = "modelUuid is required"

\* C19: for every verb the request is rejected by the token check exactly
\* when the token check as specified does not accept it.
C19_TokenCheck ==
  adm.stage = "decided" =>
    (adm.reason \in AuthErrors <=> ~TokenAccepts(adm.obj, adm.now))
\* A token that expires this very second has been accepted.
C19_Witness ==
  /\ Admitted
  /\ adm.obj.ann # <<>>
  /\ adm.obj.ann[1][2].body.exp = adm.now

\* C20: a delete is accepted exactly when the token check passes, whatever
\* the spec of the object is, and the object is not defaulted.
C20_DeleteChecksTokenOnly ==
  Decided("delete") =>
    /\ (adm.reason = "" <=> TokenAccepts(adm.req, adm.now))
    /\ adm.obj = adm.req
C20_Witness ==
  /\ Admitted /\ adm.verb = "delete"
  /\ adm.obj.ann # <<>>
  /\ OverBounds(adm.obj.spec)
  /\ adm.obj.spec.modelName = ""

\* ------------------------------------------- claims, status and steps
\* C23: the persisted gatewayURL of a ModelServe is empty unless some
\* Reconcile call has read its Deployment with availableReplicas > 0.
C23_GatewayOnlyWhenReady ==
  (ms.exists /\ ms.status.gatewayURL # "") => hist.ready

\* In this step worker w's Reconcile call creates the child of kind k.
Creates(w, k) == ReconcileStep(w) /\ ~kids[k].exists /\ kids'[k].exists
\* Worker w's Reconcile call holds a copy of the ModelServe now stored.
HoldsObject(w) == ms.exists /\ ms.uid = inv[w].uid
\* C26: no child that Reconcile created exists while the persisted phase
\* of the ModelServe of its name is unset.
C26_NoChildBeforePending ==
  (ms.exists /\ ms.status.phase = "") => byRec = {}
\* C26, the part about one invocation: a call that read an unset phase goes
\* on to its first child lookup only with Pending persisted, returns the
\* error of that write having created nothing, and creates no child of the
\* ModelServe it holds while the persisted phase is unset.
C26_PendingFirst ==
  [][\A w \in Workers :
       /\ (inv[w].pc = "init" /\ ReconcileStep(w) /\ ~Returns(w)) =>
            /\ inv'[w].pc = "cmGet"
            /\ ms'.status.phase = "Pending"
       /\ (inv[w].pc = "init" /\ Returns(w)) =>
            /\ lastRun'[w].result = "err"
            /\ inv[w].creates = 0
            /\ kids' = kids
       /\ \A k \in Kinds :
            (Creates(w, k) /\ HoldsObject(w)) => ms.status.phase # ""]_vars

\* C27: Reconcile never creates the Deployment of the ModelServe it holds
\* while the persisted phase of that ModelServe is still Pending.
C27_DownloadingBeforeCreate ==
  [][\A w \in Workers :
       (Creates(w, "Deployment") /\ HoldsObject(w))
         => ms.status.phase # "Pending"]_vars

\* The messages line 507 formats from the create's error.
FailedMessages ==
  {"Failed to create deployment: " \o e : e \in {"already exists", "create failed"}}
\* In this step the status write of worker w's call is accepted: the store
\* answers without an error of its own, the ModelServe is the one the
\* call read and no one has changed it since.
WriteAccepted(w) ==
  /\ budget' = budget
  /\ HoldsObject(w)
  /\ ~inv[w].stale
\* C28: a call whose Deployment create was rejected returns with the error,
\* and the persisted phase is Failed with a message that holds the error.
C28_FailureRecorded ==
  [][\A w \in Workers :
       (inv[w].pc = "depFailed" /\ Returns(w) /\ SameObject(w)) =>
         /\ lastRun'[w].result = "err"
         /\ ms'.status.phase = "Failed"
         /\ ms'.status.message \in FailedMessages]_vars

\* C29: a create of the Service or of the Ingress that fails makes
\* Reconcile return the error and leaves the stored ModelServe, status
\* included, as it was.
C29_EndpointFailureKeepsStatus ==
  [][\A w \in Workers :
       (/\ inv[w].pc \in {"svcCreate", "ingCreate"}
        /\ ReconcileStep(w)
        /\ kids' = kids) =>
         /\ Returns(w)
         /\ lastRun'[w].result = "err"
         /\ ms' = ms]_vars
C29_Witness ==
  /\ inv[1].pc = "idle"
  /\ lastRun[1].result = "err"
  /\ lastRun[1].tried \cap {"Service", "Ingress"} # {}
  /\ ms.exists
  /\ ms.status.phase = "Downloading"

\* C30: a call creates at most one of Deployment, Service and Ingress and
\* returns with Requeue in the step that creates it; the status section is
\* reached only by a call that found all three and tried to create none.
C30_OneCreateThenRequeue ==
  [][\A w \in Workers :
       /\ \A k \in OwnedKinds :
            Creates(w, k) =>
              /\ inv[w].tried \cap OwnedKinds = {}
              /\ Returns(w)
              /\ lastRun'[w].result = "requeue"
              /\ ms' = ms
       /\ inv'[w].pc \in {"status", "statusWrite"} =>
            /\ OwnedKinds \subseteq inv'[w].seen
            /\ inv'[w].tried \cap OwnedKinds = {}]_vars
C30_Witness ==
  /\ inv[1].pc = "idle"
  /\ lastRun[1].result = "requeue"
  /\ lastRun[1].tried = {"Service"}
  /\ "Service" \in byRec
  /\ ~kids["Ingress"].exists

\* ------------------------------------------------ claims, the builders
Built == bld.stage = "built"
\* Two ModelServe objects of one cluster differ in name or in namespace.
Distinct(m, o) == m.name # o.name \/ m.namespace # o.namespace
NamespacedName(obj) == <<obj.namespace, obj.name>>
\* C21: each of the four children has exactly the name and the namespace
\* of its ModelServe.
C21_ChildNamedAsParent ==
  Built => \A k \in Kinds :
             /\ bld.kids[k].name = bld.m.name
             /\ bld.kids[k].namespace = bld.m.namespace
\* C21 amended: Deployment, Service and Ingress have the name of their
\* ModelServe and the ConfigMap has that name followed by "-stripprefix",
\* all four in the namespace of the ModelServe; the children of two
\* distinct ModelServe objects differ, kind by kind, in name or namespace.
C21_DeterministicNaming ==
  Built =>
    /\ \A k \in OwnedKinds : bld.kids[k].name = bld.m.name
    /\ bld.kids["ConfigMap"].name = bld.m.name \o "-stripprefix"
    /\ \A k \in Kinds : bld.kids[k].namespace = bld.m.namespace
    /\ Distinct(bld.m, bld.other) =>
         \A k \in Kinds :
           NamespacedName(bld.kids[k]) # NamespacedName(bld.otherKids[k])
\* One ModelServe is named as the ConfigMap of the other.
C21_Witness ==
  /\ Built
  /\ bld.m.name = "demo"
  /\ bld.other.name = "demo-stripprefix"
  /\ bld.other.namespace = bld.m.namespace
  /\ bld.kids["ConfigMap"].name = bld.otherKids["Deployment"].name

\* A pod the Deployment d starts, and whether the Service svc selects it.
PodOf(d) == [namespace |-> d.namespace, labels |-> d.templateLabels]
Selects(svc, pod) ==
  /\ svc.namespace = pod.namespace
  /\ \A key \in DOMAIN svc.selector :
       /\ key \in DOMAIN pod.labels
       /\ pod.labels[key] = svc.selector[key]
\* C22: the pod-template labels, the Deployment's selector and the
\* Service's selector are one label set, which holds the name of the
\* ModelServe; the Service selects the pods of its own Deployment and,
\* of two distinct ModelServe objects, neither Service selects the pods
\* of the other's Deployment.
C22_SelectorMatchesLabels ==
  Built =>
    LET dep == bld.kids["Deployment"]
        svc == bld.kids["Service"]
    IN /\ dep.templateLabels = dep.selector
       /\ svc.selector = dep.selector
       /\ \E key \in DOMAIN dep.selector : dep.selector[key] = bld.m.name
       /\ Selects(svc, PodOf(dep))
       /\ Distinct(bld.m, bld.other) =>
            /\ ~Selects(svc, PodOf(bld.otherKids["Deployment"]))
            /\ ~Selects(bld.otherKids["Service"], PodOf(dep))
\* Two ModelServe objects of one namespace.
C22_Witness ==
  /\ Built
  /\ bld.m.namespace = bld.other.namespace
  /\ bld.m.name = "demo"
  /\ bld.other.name = "demo2"
  /\ Selects(bld.otherKids["Service"], PodOf(bld.otherKids["Deployment"]))

\* C24: the gatewayURL Reconcile computes for the ModelServe named N is
\* scheme://host/N/ with the fixed host.
C24_GatewayFormat ==
  Built =>
    \E scheme \in {"http", "https"} :
      bld.status.gatewayURL =
        scheme \o "://" \o GatewayHost \o "/" \o bld.m.name \o "/"

\* The limit Reconcile configures: the spec's value, the default for 0.
ConfiguredLimit(v, default) == IF v = 0 THEN default ELSE v
\* The built Deployment has the configured limits, half of each (integer
\* division) as request, and no request above its limit.
RequestsHalfOfLimits ==
  LET d == bld.kids["Deployment"]
      mem == ConfiguredLimit(bld.m.spec.memoryLimit, DefaultMemoryLimit)
      cpu == ConfiguredLimit(bld.m.spec.cpuLimit, DefaultCPULimit)
  IN /\ d.limits = [memory |-> Quantity(mem, "Mi"), cpu |-> Quantity(cpu, "m")]
     /\ d.requests = [memory |-> Quantity(GoDiv(mem, 2), "Mi"),
                      cpu |-> Quantity(GoDiv(cpu, 2), "m")]
     /\ d.requests.memory.value <= d.limits.memory.value
     /\ d.requests.cpu.value <= d.limits.cpu.value
\* C25: for every memoryLimit and cpuLimit the admission gate lets pass
\* (it rejects only values above the maxima, and only on create), the
\* requests are half the limits and do not exceed them.
C25_RequestsHalfOfLimits ==
  (/\ Built
   /\ bld.m.spec.memoryLimit <= MaxMemoryLimit
   /\ bld.m.spec.cpuLimit <= MaxCPULimit) => RequestsHalfOfLimits
\* C25, for limits that are not negative: holds.
C25_HalfWhenNotNegative ==
  (/\ Built
   /\ bld.m.spec.memoryLimit \in 0..MaxMemoryLimit
   /\ bld.m.spec.cpuLimit \in 0..MaxCPULimit) => RequestsHalfOfLimits

\* -------------------------------------------- claims, the status section
\* C31: a call that reaches the status section having read the Deployment
\* with 0 available replicas leaves phase and message as they are when the
\* phase is Downloading or Failed, and otherwise goes on to write phase
\* Pending with the waiting message; the write stores what it computed.
C31_NotReadyKeepsDownloadingAndFailed ==
  [][\A w \in Workers :
       /\ (inv[w].pc = "status" /\ ReconcileStep(w)
              /\ inv[w].foundAvail = 0) =>
            IF inv[w].m.phase \in {"Downloading", "Failed"}
              THEN \/ Returns(w) /\ ms' = ms
                   \/ /\ inv'[w].pc = "statusWrite"
                      /\ inv'[w].m.phase = inv[w].m.phase
                      /\ inv'[w].m.message = inv[w].m.message
              ELSE /\ inv'[w].pc = "statusWrite"
                   /\ inv'[w].m.phase = "Pending"
                   /\ inv'[w].m.message = "Waiting for pod to be ready"
       /\ (inv[w].pc = "statusWrite" /\ ReconcileStep(w)
              /\ WriteAccepted(w)) => ms'.status = inv[w].m]_vars
\* A Failed phase has been carried through the status section with no
\* replica available (the write that follows stores the other fields).
C31_Witness ==
  /\ inv[1].pc = "statusWrite"
  /\ inv[1].foundAvail = 0
  /\ inv[1].m.phase = "Failed"
  /\ ms.status.phase = "Failed"

\* C32: a persisted phase Running comes with a persisted
\* availableReplicas > 0 and a startedAt that is set.
C32_RunningImpliesReady ==
  (ms.exists /\ ms.status.phase = "Running") =>
    /\ ms.status.availableReplicas > 0
    /\ ms.status.startedAt # 0
C32_Witness ==
  /\ ms.exists
  /\ ms.status.phase = "Running"
  /\ ms.status.availableReplicas = depAvail
  /\ inv[1].pc = "idle"
  /\ lastRun[1].result = "ok"

\* C33: Reconcile creates the strip-prefix ConfigMap only in a call that
\* has found the Deployment and the Service.
C33_ConfigWithRoute ==
  [][\A w \in Workers :
       Creates(w, "ConfigMap")
         => {"Deployment", "Service"} \subseteq inv[w].seen]_vars

\* C35: a call whose Get answers that the ModelServe does not exist returns
\* without error and without requeue, and leaves the store as it is.
C35_DeletedParentNoOp ==
  [][\A w \in Workers :
       (/\ inv[w].pc = "get" /\ ReconcileStep(w)
        /\ ~ms.exists /\ budget' = budget) =>
         /\ Returns(w)
         /\ lastRun'[w].result = "ok"
         /\ inv[w].creates = 0 /\ inv[w].writes = 0
         /\ queued' = queued
         /\ kids' = kids
         /\ ms' = ms]_vars
\* A call has returned for the key of a ModelServe that was deleted.
C35_Witness ==
  /\ ~ms.exists
  /\ nextUid > 1
  /\ inv[1].pc = "idle"
  /\ lastRun[1].result = "ok"
  /\ ~queued

\* C37: no step of Reconcile creates or deletes the ModelServe or changes
\* its uid or its spec; the status is all it writes.
C37_OnlyStatusWritten ==
  [][\A w \in Workers :
       ReconcileStep(w) =>
         /\ ms'.exists = ms.exists
         /\ ms'.uid = ms.uid
         /\ ms'.spec = ms.spec]_vars
\* Reconcile has written the status of a ModelServe whose spec a client
\* had changed.
C37_Witness ==
  /\ ms.exists
  /\ ms.spec.image # DefaultImage
  /\ ms.status.serviceName # ""
  /\ inv[1].pc = "idle"
  /\ lastRun[1].result = "ok"

\* --------------------------------------------- claims, order and restart
AllChildren == \A k \in Kinds : kids[k].exists
\* C34: from any subset of the children and any phase, the calls reach a
\* state from which all four children exist for good, and once all four
\* exist no step creates or changes a child.
C34_ConvergesFromPartial ==
  /\ <>[]AllChildren
  /\ [][AllChildren => kids' = kids]_vars
\* All four children exist, some of them created by the calls after the
\* restart and the others found, one store call having failed on the way.
C34_Witness ==
  /\ AllChildren
  /\ byRec # {}
  /\ byRec # Kinds
  /\ budget = 0
  /\ inv[1].pc = "idle"
  /\ lastRun[1].result = "ok"
  /\ ~queued

\* C36: the Ingress exists only if the Service exists, and the Service
\* only if the Deployment exists.
C36_CreationOrder ==
  /\ kids["Ingress"].exists => kids["Service"].exists
  /\ kids["Service"].exists => kids["Deployment"].exists
\* Reconcile has created the Service and not yet the Ingress.
C36_Witness ==
  /\ {"Deployment", "Service"} \subseteq byRec
  /\ ~kids["Ingress"].exists

\* ------------------------------------------------- claims, the defaults
\* C39: on create as on update the defaulted object is Default of the
\* object submitted; Default applied to it again changes nothing; the
\* annotation and modelName, modelUUID, minioPath and runtimeParams are as
\* submitted, and so is every optional field that was submitted set.
C39_DefaultIdempotent ==
  (adm.stage \in {"defaulted", "decided"}
     /\ adm.verb \in {"create", "update"}) =>
    LET s == adm.req.spec
        d == adm.obj.spec
    IN /\ adm.obj = Default(adm.req)
       /\ Default(adm.obj) = adm.obj
       /\ adm.obj.ann = adm.req.ann
       /\ d.modelName = s.modelName
       /\ d.modelUUID = s.modelUUID
       /\ d.minioPath = s.minioPath
       /\ d.runtimeParams = s.runtimeParams
       /\ s.replicas # <<>> => d.replicas = s.replicas
       /\ s.memoryLimit # 0 => d.memoryLimit = s.memoryLimit
       /\ s.cpuLimit # 0 => d.cpuLimit = s.cpuLimit
       /\ s.minioBucket # "" => d.minioBucket = s.minioBucket
       /\ s.minioEndpoint # "" => d.minioEndpoint = s.minioEndpoint
       /\ s.image # "" => d.image = s.image
\* An update with some fields set and the others unset has been defaulted.
C39_Witness ==
  /\ adm.stage = "defaulted"
  /\ adm.verb = "update"
  /\ adm.req.spec.image = "registry.example/llama:v2"
  /\ adm.req.spec.runtimeParams # ""
  /\ adm.req.spec.replicas = <<0>>
  /\ adm.req.spec.memoryLimit = 0
  /\ adm.obj.spec.memoryLimit = 4096
  /\ adm.obj.spec.image = adm.req.spec.image

\* C40: the Deployment built from a spec as submitted and the Deployment
\* built from Default of that spec have the same replicas, image, limits,
\* MinIO bucket and MinIO endpoint.
C40_FallbacksAgreeWithDefaults ==
  Built =>
    LET raw == bld.kids["Deployment"]
        def == bld.defaulted
    IN /\ raw.replicas = def.replicas
       /\ raw.image = def.image
       /\ raw.limits = def.limits
       /\ raw.minioBucket = def.minioBucket
       /\ raw.minioEndpoint = def.minioEndpoint
\* Every optional field has been left unset.
C40_Witness ==
  /\ Built
  /\ bld.m.spec = NoSpec
  /\ bld.kids["Deployment"].replicas = 1
  /\ bld.kids["Deployment"].image = DefaultImage
  /\ bld.kids["Deployment"].limits.memory.value = 4096
  /\ bld.kids["Deployment"].limits.cpu.value = 2000
  /\ bld.kids["Deployment"].minioBucket = "inference-models"
  /\ bld.kids["Deployment"].minioEndpoint = "minio:9000"

\* What belongs to key n: the objects its calls created and the pods of
\* its Deployment, its persisted status, its call and its queue entry.
Proj(K, n) ==
  [store |-> {e \in K.store : e.by = n}, status |-> K.status[n],
   run |-> K.run[n], queued |-> K.queued[n]]
\* The state with key n alone: nothing of another key is stored, no call
\* for another key has run or runs.
Alone(K, n) ==
  [K EXCEPT !.store = {e \in @ : e.by \notin KeyNames \ {n}},
     !.status = [o \in KeyNames |-> IF o = n THEN @[o] ELSE EmptyStatus],
     !.run = [o \in KeyNames |-> IF o = n THEN @[o] ELSE IdleRun],
     !.queued = [o \in KeyNames |-> IF o = n THEN @[o] ELSE FALSE]]
\* The states the next step of the call for key n leads to from K.
KeySteps(K, n) ==
  LET pc == K.run[n].pc
  IN CASE pc = "idle" -> IF K.queued[n] THEN {KeyStartStep(K, n)} ELSE {}
       [] pc = "get" -> {KeyGetStep(K, n)}
       [] pc = "init" -> {KeyInitStep(K, n)}
       [] pc = "childGet" -> {KeyChildGetStep(K, n)}
       [] pc = "downloading" -> {KeyDownloadingStep(K, n)}
       [] pc = "childCreate" -> {KeyChildCreateStep(K, n)}
       [] pc = "failed" -> {KeyFailedStep(K, n)}
       [] pc = "status" -> {KeyStatusStep(K, n, pod) : pod \in PodChoices(K, n)}
       [] OTHER -> {KeyWriteStep(K, n)}
\* C38: two ModelServes of one namespace with different names.  No call
\* for one key reads, creates or writes an object or the status of the
\* other; a step of a call leaves everything of the other key as it was,
\* and does to its own children and status what it would do were its key
\* alone in the store.
C38_DistinctKeysDoNotInterfere ==
  /\ [](keys.stage = "keys" =>
          \A n \in KeyNames :
            /\ \A o \in KeyNames \ {n} : ParentKey(o) \notin keys.acc[n]
            /\ \A e \in keys.store :
                 e.by \in KeyNames \ {n}
                   => ObjectKey(e.kind, e.body) \notin keys.acc[n])
  /\ [][keys.stage = "keys" =>
          \A n \in KeyNames :
            keys'.run[n] # keys.run[n] =>
              /\ \A o \in KeyNames \ {n} : Proj(keys', o) = Proj(keys, o)
              /\ Proj(keys', n) \in
                   {Proj(s, n) : s \in KeySteps(Alone(keys, n), n)}]_vars
\* The calls for both keys are in flight together, each about to write
\* phase Running with its own pod and gateway URL, and each key has its
\* own four children; one ModelServe is named like the other's ConfigMap.
C38_Witness ==
  /\ keys.stage = "keys"
  /\ \A n \in KeyNames :
       /\ keys.run[n].pc = "write"
       /\ keys.run[n].m.phase = "Running"
       /\ keys.run[n].m.podName = n \o "-pod"
       /\ keys.run[n].m.gatewayURL = GatewayURL(n)
       /\ keys.status[n].phase = "Downloading"
       /\ {[kind |-> e.kind, body |-> e.body] :
             e \in {x \in keys.store : x.by = n /\ x.kind # "Pod"}}
            = {[kind |-> k, body |-> BuildChild(k, KeyParent(keys, n))] :
                 k \in Kinds}
  /\ \E e \in keys.store :
       /\ e.kind = "ConfigMap"
       /\ e.by = "demo"
       /\ e.body.name \in KeyNames \ {e.by}
====
